---- MODULE Spec2Model ----
(***************************************************************************)
(* Verification model of the LLM.lang runtime: the context/scope manager   *)
(* (runtime/context.rs), the tree-walking engine (runtime/engine.rs) and   *)
(* the parallel executor (runtime/parallel.rs), the code modifier          *)
(* (runtime/modify.rs) and the lexer and parser it prints for.             *)
(***************************************************************************)
EXTENDS Integers, Sequences, FiniteSets, TLC

VARIABLES contexts, current_context, context_stack, scope_stack,
          instructions, result,
          functions, max_threads, handles, joining, results, lock, threads,
          pc, channel, timeout, elapsed,
          modified_ast, ast_cache, source_cache, files,
          options, memory, peak_memory

engine_vars == <<contexts, current_context, context_stack, scope_stack,
                 instructions>>

parallel_vars == <<functions, max_threads, handles, joining, results, lock,
                   threads, pc, channel, timeout, elapsed>>

modify_vars == <<modified_ast, ast_cache, source_cache, files>>

limit_vars == <<options, memory, peak_memory>>

vars == <<engine_vars, result, parallel_vars, modify_vars, limit_vars>>

(***************************************************************************)
(* Bounds of the model                                                     *)
(***************************************************************************)
MaxFrames == 2
MaxCtxDepth == 2
MaxSwitches == 1
MaxLeaked == 1
MaxDigit == 5
MaxFunctions == 3
MaxThreads == 2
MaxTimeout == 2
MaxCalls == 2
MaxPaths == 2
MaxTime == 2
MaxBatch == 2
MaxStatements == 2
MaxModifications == 2
MaxElapsed == 1
MaxUsage == 16
IntBits == 3
MaxExponent == 1
MaxCases == 3
MaxTextLen == 4

VarNames == {"x", "y"}
CtxNames == {"global", "A"}

(***************************************************************************)
(* Value (lib.rs): a tag, an integer payload and a string payload          *)
(***************************************************************************)
Val(t, i, s) == [t |-> t, i |-> i, s |-> s]
VoidV == Val("Void", 0, "")
IntV(i) == Val("Int", i, "")
BoolV(b) == Val("Bool", IF b THEN 1 ELSE 0, "")
FunctionV(n) == Val("Function", 0, n)
ContextV(n) == Val("Context", 0, n)

IntValues == {IntV(1), IntV(2)}

\* the (name, value) pairs the declarations and assignments are drawn from
Bindings == {<<"x", IntV(1)>>, <<"x", IntV(2)>>, <<"y", IntV(1)>>}

(***************************************************************************)
(* Option<T>, Result<T, RuntimeError>, HashMap                             *)
(***************************************************************************)
None == [some |-> FALSE]
Some(v) == [some |-> TRUE, v |-> v]

NoError == [kind |-> "", name |-> "", expected |-> 0, actual |-> 0]
Ok(v) == [ok |-> TRUE, value |-> v, error |-> NoError]
Err(k, n, e, a) ==
    [ok |-> FALSE, value |-> VoidV,
     error |-> [kind |-> k, name |-> n, expected |-> e, actual |-> a]]

EmptyMap == [k \in {} |-> 0]
Put(m, k, v) == [j \in (DOMAIN m) \cup {k} |-> IF j = k THEN v ELSE m[j]]
Get(m, k) == IF k \in DOMAIN m THEN Some(m[k]) ELSE None

(***************************************************************************)
(* runtime/context.rs: Scope                                               *)
(***************************************************************************)
Scope_new == [variables |-> EmptyMap]

Scope_register_variable(scope, n, v) ==
    [scope EXCEPT !.variables = Put(scope.variables, n, v)]

Scope_get_variable(scope, n) == Get(scope.variables, n)

Scope_assign_variable(scope, n, v) ==
    IF n \in DOMAIN scope.variables
    THEN [scope |-> [scope EXCEPT !.variables = Put(scope.variables, n, v)],
          res |-> Ok(VoidV)]
    ELSE [scope |-> scope, res |-> Err("undefined_assignment", n, 0, 0)]

(***************************************************************************)
(* runtime/context.rs: ExecutionContext                                    *)
(***************************************************************************)
ExecutionContext_new(n) ==
    [name |-> n, functions |-> EmptyMap, variables |-> EmptyMap]

ExecutionContext_register_function(ec, n, node) ==
    [ec EXCEPT !.functions = Put(ec.functions, n, node)]

ExecutionContext_get_function(ec, n) == Get(ec.functions, n)

ExecutionContext_register_variable(ec, n, v) ==
    [ec EXCEPT !.variables = Put(ec.variables, n, v)]

ExecutionContext_get_variable(ec, n) == Get(ec.variables, n)

ExecutionContext_assign_variable(ec, n, v) ==
    IF n \in DOMAIN ec.variables
    THEN [ec |-> [ec EXCEPT !.variables = Put(ec.variables, n, v)],
          res |-> Ok(VoidV)]
    ELSE [ec |-> ec, res |-> Err("undefined_assignment", n, 0, 0)]

(***************************************************************************)
(* runtime/context.rs: Context (the context manager)                       *)
(***************************************************************************)
Context_new ==
    [contexts |-> Put(EmptyMap, "global", ExecutionContext_new("global")),
     current_context |-> "global",
     context_stack |-> <<>>,
     scope_stack |-> <<>>]

create_context(c, n) ==
    [c EXCEPT !.contexts = Put(c.contexts, n, ExecutionContext_new(n))]

switch_context(c, n) ==
    [c EXCEPT !.context_stack = Append(c.context_stack, c.current_context),
              !.current_context = n]

\* switch_back that reads the top of the context stack and leaves it pushed
switch_back_keeping_entry(c) ==
    IF Len(c.context_stack) > 0
    THEN [c EXCEPT !.current_context = c.context_stack[Len(c.context_stack)]]
    ELSE c

switch_back(c) ==
    IF Len(c.context_stack) > 0
    THEN [c EXCEPT !.current_context = c.context_stack[Len(c.context_stack)],
                   !.context_stack = SubSeq(c.context_stack, 1,
                                            Len(c.context_stack) - 1)]
    ELSE c

push_frame(c) == [c EXCEPT !.scope_stack = Append(c.scope_stack, Scope_new)]

pop_frame(c) ==
    IF Len(c.scope_stack) > 0
    THEN [c EXCEPT !.scope_stack = SubSeq(c.scope_stack, 1,
                                          Len(c.scope_stack) - 1)]
    ELSE c

register_function(c, n, node) ==
    IF c.current_context \in DOMAIN c.contexts
    THEN [c EXCEPT !.contexts = Put(c.contexts, c.current_context,
              ExecutionContext_register_function(
                  c.contexts[c.current_context], n, node))]
    ELSE c

get_function(c, n) ==
    IF c.current_context \in DOMAIN c.contexts
    THEN ExecutionContext_get_function(c.contexts[c.current_context], n)
    ELSE None

\* a declaration that always writes to the current context, frame or not
register_variable_in_context(c, n, v) ==
    IF c.current_context \in DOMAIN c.contexts
    THEN [c EXCEPT !.contexts = Put(c.contexts, c.current_context,
              ExecutionContext_register_variable(
                  c.contexts[c.current_context], n, v))]
    ELSE c

register_variable(c, n, v) ==
    IF Len(c.scope_stack) > 0
    THEN [c EXCEPT !.scope_stack[Len(c.scope_stack)] =
              Scope_register_variable(c.scope_stack[Len(c.scope_stack)], n, v)]
    ELSE IF c.current_context \in DOMAIN c.contexts
    THEN [c EXCEPT !.contexts = Put(c.contexts, c.current_context,
              ExecutionContext_register_variable(
                  c.contexts[c.current_context], n, v))]
    ELSE c

\* a lookup that scans the frames bottom-up instead of top-down
get_variable_scopes_bottom_up(c, n, i) ==
    LET holders == {j \in 1..i : n \in DOMAIN c.scope_stack[j].variables}
        lowest == CHOOSE j \in holders : \A k \in holders : j <= k
    IN  IF holders = {} THEN None
        ELSE Some(c.scope_stack[lowest].variables[n])

\* the loop `for scope in self.scope_stack.iter().rev()` of get_variable,
\* at frame i (counting down to 1)
RECURSIVE get_variable_scopes(_, _, _)
get_variable_scopes(c, n, i) ==
    IF i = 0 THEN None
    ELSE IF Scope_get_variable(c.scope_stack[i], n).some
    THEN Scope_get_variable(c.scope_stack[i], n)
    ELSE get_variable_scopes(c, n, i - 1)

get_variable(c, n) ==
    LET inScopes == get_variable_scopes(c, n, Len(c.scope_stack))
        inCurrent == IF c.current_context \in DOMAIN c.contexts
                     THEN ExecutionContext_get_variable(
                              c.contexts[c.current_context], n)
                     ELSE None
        inGlobal == IF c.current_context # "global"
                       /\ "global" \in DOMAIN c.contexts
                    THEN ExecutionContext_get_variable(c.contexts["global"], n)
                    ELSE None
    IN  IF inScopes.some THEN inScopes
        ELSE IF inCurrent.some THEN inCurrent
        ELSE IF inGlobal.some THEN inGlobal
        ELSE None

\* the loop `for scope in self.scope_stack.iter_mut().rev()` of
\* assign_variable, at frame i (counting down to 1); 0 when no frame holds n
RECURSIVE assign_variable_scopes(_, _, _)
assign_variable_scopes(c, n, i) ==
    IF i = 0 THEN 0
    ELSE IF n \in DOMAIN c.scope_stack[i].variables THEN i
    ELSE assign_variable_scopes(c, n, i - 1)

\* an assignment that creates a global binding for an unbound name
assign_variable_creating(c, n, v) ==
    IF get_variable(c, n).some
    THEN [ctx |-> register_variable(c, n, v), res |-> Ok(VoidV)]
    ELSE [ctx |-> [c EXCEPT !.contexts = Put(c.contexts, "global",
                      ExecutionContext_register_variable(
                          c.contexts["global"], n, v))],
          res |-> Ok(VoidV)]

\* an assignment that writes the global binding whenever there is one
assign_variable_global_first(c, n, v) ==
    IF "global" \in DOMAIN c.contexts
       /\ n \in DOMAIN c.contexts["global"].variables
    THEN [ctx |-> [c EXCEPT !.contexts = Put(c.contexts, "global",
                      ExecutionContext_assign_variable(
                          c.contexts["global"], n, v).ec)],
          res |-> Ok(VoidV)]
    ELSE [ctx |-> c, res |-> Err("undefined_assignment", n, 0, 0)]

assign_variable(c, n, v) ==
    LET i == assign_variable_scopes(c, n, Len(c.scope_stack))
    IN  IF i > 0
        THEN [ctx |-> [c EXCEPT !.scope_stack[i] =
                          Scope_assign_variable(c.scope_stack[i], n, v).scope],
              res |-> Scope_assign_variable(c.scope_stack[i], n, v).res]
        ELSE IF c.current_context \in DOMAIN c.contexts
                /\ n \in DOMAIN c.contexts[c.current_context].variables
        THEN [ctx |-> [c EXCEPT !.contexts = Put(c.contexts, c.current_context,
                          ExecutionContext_assign_variable(
                              c.contexts[c.current_context], n, v).ec)],
              res |-> ExecutionContext_assign_variable(
                          c.contexts[c.current_context], n, v).res]
        ELSE IF c.current_context # "global"
                /\ "global" \in DOMAIN c.contexts
                /\ n \in DOMAIN c.contexts["global"].variables
        THEN [ctx |-> [c EXCEPT !.contexts = Put(c.contexts, "global",
                          ExecutionContext_assign_variable(
                              c.contexts["global"], n, v).ec)],
              res |-> ExecutionContext_assign_variable(
                          c.contexts["global"], n, v).res]
        ELSE [ctx |-> c, res |-> Err("undefined_assignment", n, 0, 0)]

(***************************************************************************)
(* parser/ast.rs: Node.  Attributes map attribute names to strings; the    *)
(* text of an integer literal is kept as its sequence of decimal digits.   *)
(***************************************************************************)
Node(kind, attrs, children) ==
    [kind |-> kind, attributes |-> attrs, children |-> children]

get_attribute(node, key) == Get(node.attributes, key)
child_count(node) == Len(node.children)
get_child(node, i) ==
    IF i < Len(node.children) THEN Some(node.children[i + 1]) ELSE None

\* str::parse::<i64> on a digit sequence
RECURSIVE parse_i64(_)
parse_i64(digits) ==
    IF Len(digits) = 0 THEN 0
    ELSE 10 * parse_i64(SubSeq(digits, 1, Len(digits) - 1)) + digits[Len(digits)]

(***************************************************************************)
(* stdlib/mod.rs: the library functions the programs of the model call     *)
(***************************************************************************)
StdLib_functions == {"currentContext"}

StdLib_current_context(arguments) ==
    IF Len(arguments) # 0
    THEN Err("stdlib_arguments", "currentContext", 0, Len(arguments))
    ELSE Ok(ContextV("MainProgram"))

StdLib_call(name, arguments) ==
    CASE name = "currentContext" -> StdLib_current_context(arguments)

(***************************************************************************)
(* runtime/engine.rs: Engine.  An engine is its context manager and its    *)
(* instruction counter; every handler maps an engine and a node to the     *)
(* engine afterwards and the Result it returns.                            *)
(***************************************************************************)
Ret(e, res) == [e |-> e, res |-> res]

\* the Function node register_stdlib_functions builds for a library name
StdLib_node(name) == Node("Function", [name |-> name], <<>>)

RECURSIVE register_stdlib_functions_from(_, _)
register_stdlib_functions_from(c, names) ==
    IF names = {} THEN c
    ELSE LET name == CHOOSE n \in names : TRUE
         IN  register_stdlib_functions_from(
                 register_function(c, name, StdLib_node(name)),
                 names \ {name})

register_stdlib_functions(e) ==
    [e EXCEPT !.context =
        register_stdlib_functions_from(e.context, StdLib_functions)]

\* EngineOptions::default(), for the two budgets
EngineOptions_default == [max_memory |-> None, max_time |-> None]

\* runtime/memory.rs: Memory
Memory_new == [values |-> EmptyMap, memory_usage |-> 0]

\* calculate_value_size, for the values the programs of the model remember
calculate_value_size(value) ==
    CASE value.t = "Void" -> 0
      [] value.t = "Bool" -> 1
      [] value.t = "Int" -> 8

Memory_remember(m, key, value) ==
    [values |-> Put(m.values, key, value),
     memory_usage |-> m.memory_usage + calculate_value_size(value)]

Memory_recall(m, key) ==
    IF key \in DOMAIN m.values THEN Ok(m.values[key])
    ELSE Err("No value remembered for key", key, 0, 0)

\* Engine::new with the options given.  clock is what
\* `start_time.unwrap().elapsed().as_millis()` returns at the first, the
\* second, ... dispatch of a run, and at the last of them from then on.
Engine_with(opts) ==
    register_stdlib_functions(
        [context |-> Context_new, instructions |-> 0, options |-> opts,
         memory |-> Memory_new, peak_memory |-> 0, clock |-> <<0>>])

Engine_new == Engine_with(EngineOptions_default)

is_truthy(value) ==
    CASE value.t = "Bool" -> value.i = 1
      [] value.t = "Int" -> value.i # 0
      [] value.t = "Function" -> TRUE
      [] value.t = "Context" -> TRUE
      [] value.t = "Void" -> FALSE

values_equal(a, b) ==
    CASE a.t = "Bool" /\ b.t = "Bool" -> a.i = b.i
      [] a.t = "Int" /\ b.t = "Int" -> a.i = b.i
      [] a.t = "Function" /\ b.t = "Function" -> a.s = b.s
      [] a.t = "Context" /\ b.t = "Context" -> a.s = b.s
      [] a.t = "Void" /\ b.t = "Void" -> TRUE
      [] OTHER -> FALSE

add(a, b) ==
    IF a.t = "Int" /\ b.t = "Int" THEN Ok(IntV(a.i + b.i))
    ELSE Err("invalid_operation", "+", 0, 0)

RECURSIVE execute_node(_, _)

\* `for child in &node.children { result = self.execute_node(child)?; }`
\* from child i on, with the value of the previous child in last
RECURSIVE execute_children(_, _, _, _)
execute_children(e, children, i, last) ==
    IF i > Len(children) THEN Ret(e, Ok(last))
    ELSE LET r == execute_node(e, children[i])
         IN  IF ~r.res.ok THEN r
             ELSE execute_children(r.e, children, i + 1, r.res.value)

execute_program(e, node) == execute_children(e, node.children, 1, VoidV)

execute_context(e, node) ==
    LET name == get_attribute(node, "name")
    IN  IF ~name.some THEN Ret(e, Err("missing_attribute", "name", 0, 0))
        ELSE LET e1 == [e EXCEPT !.context = create_context(e.context, name.v)]
                 r == execute_children(e1, node.children, 1, VoidV)
             IN  IF ~r.res.ok THEN r
                 ELSE Ret(r.e, Ok(ContextV(name.v)))

execute_function(e, node) ==
    LET name == get_attribute(node, "name")
    IN  IF ~name.some THEN Ret(e, Err("missing_attribute", "name", 0, 0))
        ELSE Ret([e EXCEPT !.context = register_function(e.context, name.v, node)],
                 Ok(FunctionV(name.v)))

execute_variable(e, node) ==
    LET name == get_attribute(node, "name")
        initializer == get_child(node, 0)
    IN  IF ~name.some THEN Ret(e, Err("missing_attribute", "name", 0, 0))
        ELSE IF ~initializer.some THEN Ret(e, Err("missing_child", "", 0, 0))
        ELSE LET r == execute_node(e, initializer.v)
             IN  IF ~r.res.ok THEN r
                 ELSE Ret([r.e EXCEPT !.context =
                              register_variable(r.e.context, name.v, r.res.value)],
                          Ok(r.res.value))

execute_statement(e, node) ==
    LET child == get_child(node, 0)
    IN  IF ~child.some THEN Ret(e, Err("missing_child", "", 0, 0))
        ELSE execute_node(e, child.v)

execute_block(e, node) == execute_children(e, node.children, 1, VoidV)

execute_if(e, node) ==
    LET condition == get_child(node, 0)
    IN  IF ~condition.some THEN Ret(e, Err("missing_child", "", 0, 0))
        ELSE LET rc == execute_node(e, condition.v)
             IN  IF ~rc.res.ok THEN rc
                 ELSE IF is_truthy(rc.res.value)
                 THEN IF ~get_child(node, 1).some
                      THEN Ret(rc.e, Err("missing_child", "", 1, 0))
                      ELSE execute_node(rc.e, get_child(node, 1).v)
                 ELSE IF child_count(node) > 2
                 THEN execute_node(rc.e, get_child(node, 2).v)
                 ELSE Ret(rc.e, Ok(VoidV))

execute_return(e, node) ==
    IF child_count(node) > 0
    THEN execute_node(e, get_child(node, 0).v)
    ELSE Ret(e, Ok(VoidV))

execute_with_popping_on_error(e, node) ==
    LET name == get_attribute(node, "name")
        body == get_child(node, 0)
        entered == [e EXCEPT !.context =
                       switch_context(create_context(e.context, name.v),
                                      name.v)]
        leave(r) == Ret([r.e EXCEPT !.context = switch_back(r.e.context)],
                        r.res)
    IN  IF ~name.some THEN Ret(e, Err("missing_attribute", "name", 0, 0))
        ELSE IF ~body.some THEN Ret(entered, Err("missing_child", "", 0, 0))
        ELSE leave(execute_node(entered, body.v))

execute_with(e, node) ==
    LET name == get_attribute(node, "name")
    IN  IF ~name.some THEN Ret(e, Err("missing_attribute", "name", 0, 0))
        ELSE LET e1 == [e EXCEPT !.context =
                          switch_context(create_context(e.context, name.v),
                                         name.v)]
                 body == get_child(node, 0)
             IN  IF ~body.some THEN Ret(e1, Err("missing_child", "", 0, 0))
                 ELSE LET r == execute_node(e1, body.v)
                      IN  IF ~r.res.ok THEN r
                          ELSE Ret([r.e EXCEPT !.context = switch_back(r.e.context)],
                                   r.res)

execute_within(e, node) ==
    LET name == get_attribute(node, "name")
    IN  IF ~name.some THEN Ret(e, Err("missing_attribute", "name", 0, 0))
        ELSE LET e1 == [e EXCEPT !.context = switch_context(e.context, name.v)]
                 body == get_child(node, 0)
             IN  IF ~body.some THEN Ret(e1, Err("missing_child", "", 0, 0))
                 ELSE LET r == execute_node(e1, body.v)
                      IN  IF ~r.res.ok THEN r
                          ELSE Ret([r.e EXCEPT !.context = switch_back(r.e.context)],
                                   r.res)

\* the assignment to an identifier; a property of a Map is the other target
\* the engine accepts, and the programs of the model hold no Map
execute_assignment(e, node) ==
    LET lhs == get_child(node, 0)
        rhs == get_child(node, 1)
    IN  IF ~lhs.some THEN Ret(e, Err("missing_child", "", 0, 0))
        ELSE IF ~rhs.some THEN Ret(e, Err("missing_child", "", 1, 0))
        ELSE LET r == execute_node(e, rhs.v)
             IN  IF ~r.res.ok THEN r
                 ELSE IF lhs.v.kind = "Identifier"
                 THEN LET name == get_attribute(lhs.v, "name")
                      IN  IF ~name.some
                          THEN Ret(r.e, Err("missing_attribute", "name", 0, 0))
                          ELSE LET a == assign_variable(r.e.context, name.v,
                                                        r.res.value)
                               IN  IF ~a.res.ok
                                   THEN Ret([r.e EXCEPT !.context = a.ctx], a.res)
                                   ELSE Ret([r.e EXCEPT !.context = a.ctx],
                                            Ok(r.res.value))
                 ELSE Ret(r.e, Err("invalid_assignment_target", "", 0, 0))

\* the operators execute_binary knows; the programs of the model use +, ==
\* and !=
BinaryOperators ==
    {"+", "-", "*", "/", "%", "==", "!=", "<", ">", "<=", ">=", "and", "or", "."}

execute_binary(e, node) ==
    LET operator == get_attribute(node, "operator")
        lhs == get_child(node, 0)
        rhs == get_child(node, 1)
    IN  IF ~operator.some THEN Ret(e, Err("missing_attribute", "operator", 0, 0))
        ELSE IF ~lhs.some THEN Ret(e, Err("missing_child", "", 0, 0))
        ELSE IF ~rhs.some THEN Ret(e, Err("missing_child", "", 1, 0))
        ELSE LET rl == execute_node(e, lhs.v)
             IN  IF ~rl.res.ok THEN rl
                 ELSE LET rr == execute_node(rl.e, rhs.v)
                      IN  IF ~rr.res.ok THEN rr
                          ELSE IF operator.v \notin BinaryOperators
                          THEN Ret(rr.e, Err("unknown_operator", operator.v, 0, 0))
                          ELSE Ret(rr.e,
                              CASE operator.v = "+" ->
                                       add(rl.res.value, rr.res.value)
                                [] operator.v = "==" ->
                                       Ok(BoolV(values_equal(rl.res.value,
                                                             rr.res.value)))
                                [] operator.v = "!=" ->
                                       Ok(BoolV(~values_equal(rl.res.value,
                                                              rr.res.value))))

execute_literal(e, node) ==
    LET typ == get_attribute(node, "type")
        value == get_attribute(node, "value")
    IN  IF ~typ.some THEN Ret(e, Err("missing_attribute", "type", 0, 0))
        ELSE IF ~value.some THEN Ret(e, Err("missing_attribute", "value", 0, 0))
        ELSE IF typ.v = "Int" THEN Ret(e, Ok(IntV(parse_i64(value.v))))
        ELSE IF typ.v = "Bool" THEN Ret(e, Ok(BoolV(value.v = "true")))
        ELSE IF typ.v = "Null" THEN Ret(e, Ok(VoidV))
        ELSE Ret(e, Err("unknown_type", typ.v, 0, 0))

execute_identifier(e, node) ==
    LET name == get_attribute(node, "name")
    IN  IF ~name.some THEN Ret(e, Err("missing_attribute", "name", 0, 0))
        ELSE IF get_variable(e.context, name.v).some
        THEN Ret(e, Ok(get_variable(e.context, name.v).v))
        ELSE Ret(e, Err("undefined_variable", name.v, 0, 0))

execute_grouping(e, node) ==
    LET expression == get_child(node, 0)
    IN  IF ~expression.some THEN Ret(e, Err("missing_child", "", 0, 0))
        ELSE execute_node(e, expression.v)

\* `for i in 1..node.child_count()` of execute_call: the arguments from
\* child i on, evaluated left to right into arguments
RECURSIVE execute_arguments(_, _, _, _)
execute_arguments(e, node, i, arguments) ==
    IF i >= child_count(node)
    THEN [e |-> e, res |-> Ok(VoidV), arguments |-> arguments]
    ELSE LET r == execute_node(e, get_child(node, i).v)
         IN  IF ~r.res.ok
             THEN [e |-> r.e, res |-> r.res, arguments |-> arguments]
             ELSE execute_arguments(r.e, node, i + 1,
                                    Append(arguments, r.res.value))

\* `for i in 0..function.child_count()` of execute_call: binds the
\* parameters among the children from child i on to the arguments from
\* parameter_index on, in the top frame
RECURSIVE register_parameters(_, _, _, _, _)
register_parameters(c, function, i, parameter_index, arguments) ==
    IF i >= child_count(function) THEN [ctx |-> c, res |-> Ok(VoidV)]
    ELSE LET child == get_child(function, i).v
         IN  IF child.kind = "Parameter"
             THEN IF ~get_attribute(child, "name").some
                  THEN [ctx |-> c, res |-> Err("missing_attribute", "name", 0, 0)]
                  ELSE register_parameters(
                           register_variable(c, get_attribute(child, "name").v,
                                             arguments[parameter_index + 1]),
                           function, i + 1, parameter_index + 1, arguments)
             ELSE register_parameters(c, function, i + 1, parameter_index,
                                      arguments)

parameter_count(function) ==
    Cardinality({i \in 1..Len(function.children) :
                    function.children[i].kind = "Parameter"})

\* `function.children.iter().find(|child| child.kind == NodeKind::Block)`
find_body(function) ==
    LET blocks == {i \in 1..Len(function.children) :
                      function.children[i].kind = "Block"}
    IN  IF blocks = {} THEN None
        ELSE Some(function.children[CHOOSE i \in blocks :
                                        \A j \in blocks : i <= j])

\* the call of the user function `function` named name, after the callee and
\* the arguments have been evaluated and the library has been ruled out
call_user_function(e, name, function, arguments) ==
    IF Len(arguments) # parameter_count(function)
    THEN Ret(e, Err("invalid_argument_count", name,
                    parameter_count(function), Len(arguments)))
    ELSE LET pushed == push_frame(e.context)
             bound == register_parameters(pushed, function, 0, 0, arguments)
             body == find_body(function)
         IN  IF ~bound.res.ok
             THEN Ret([e EXCEPT !.context = bound.ctx], bound.res)
             ELSE IF ~body.some
             THEN Ret([e EXCEPT !.context = bound.ctx],
                      Err("missing_body", name, 0, 0))
             ELSE LET r == execute_node([e EXCEPT !.context = bound.ctx], body.v)
                  IN  IF ~r.res.ok THEN r
                      ELSE Ret([r.e EXCEPT !.context = pop_frame(r.e.context)],
                               r.res)

execute_call(e, node) ==
    LET callee == get_child(node, 0)
    IN  IF ~callee.some THEN Ret(e, Err("missing_child", "", 0, 0))
        ELSE LET rc == execute_node(e, callee.v)
             IN  IF ~rc.res.ok THEN rc
                 ELSE LET ra == execute_arguments(rc.e, node, 1, <<>>)
                      IN  IF ~ra.res.ok THEN Ret(ra.e, ra.res)
                          ELSE IF rc.res.value.t = "Function"
                          THEN LET name == rc.res.value.s
                               IN  IF name \in StdLib_functions
                                   THEN Ret(ra.e, StdLib_call(name, ra.arguments))
                                   ELSE IF ~get_function(ra.e.context, name).some
                                   THEN Ret(ra.e, Err("undefined_function",
                                                      name, 0, 0))
                                   ELSE call_user_function(ra.e, name,
                                            get_function(ra.e.context, name).v,
                                            ra.arguments)
                          ELSE Ret(ra.e, Err("not_callable", "", 0, 0))

\* `for i in 1..node.child_count()` of execute_when from child i on, with
\* the value of the subject in expression_value
RECURSIVE execute_cases(_, _, _, _)
execute_cases(e, node, i, expression_value) ==
    IF i >= child_count(node) THEN Ret(e, Ok(VoidV))
    ELSE LET case == get_child(node, i).v
             otherwise == /\ get_child(case, 0).some
                          /\ get_child(case, 0).v.kind = "Otherwise"
             body == get_child(case, 1)
             match(rc) ==
                 IF ~rc.res.ok THEN rc
                 ELSE IF values_equal(expression_value, rc.res.value)
                 THEN IF ~body.some
                      THEN Ret(rc.e, Err("missing_child", "", 1, 0))
                      ELSE execute_node(rc.e, body.v)
                 ELSE execute_cases(rc.e, node, i + 1, expression_value)
         IN  IF otherwise
             THEN IF ~body.some THEN Ret(e, Err("missing_child", "", 1, 0))
                  ELSE execute_node(e, body.v)
             ELSE IF ~get_child(case, 0).some
             THEN Ret(e, Err("missing_child", "", 0, 0))
             ELSE match(execute_node(e, get_child(case, 0).v))

execute_when_skipping_first_case(e, node) ==
    LET expression == get_child(node, 0)
        cases(r) ==
            IF ~r.res.ok THEN r
            ELSE execute_cases(r.e, node, 2, r.res.value)
    IN  IF ~expression.some THEN Ret(e, Err("missing_child", "", 0, 0))
        ELSE cases(execute_node(e, expression.v))

execute_when(e, node) ==
    LET expression == get_child(node, 0)
        cases(r) ==
            IF ~r.res.ok THEN r
            ELSE execute_cases(r.e, node, 1, r.res.value)
    IN  IF ~expression.some THEN Ret(e, Err("missing_child", "", 0, 0))
        ELSE cases(execute_node(e, expression.v))

\* execute_semantic for `@remember` and `@recall` with a key; `@modify` is
\* ExecuteModification below
execute_semantic(e, node) ==
    LET token == get_attribute(node, "token")
        name == get_attribute(node, "name")
        key == get_attribute(node, "key")
        value_node == get_child(node, 0)
        remember(r) ==
            IF ~r.res.ok THEN r
            ELSE Ret([r.e EXCEPT !.memory =
                         Memory_remember(r.e.memory, name.v, r.res.value)],
                     Ok(r.res.value))
    IN  IF ~token.some THEN Ret(e, Err("missing_attribute", "token", 0, 0))
        ELSE IF token.v = "@remember"
        THEN IF ~name.some THEN Ret(e, Err("missing_attribute", "name", 0, 0))
             ELSE IF ~value_node.some THEN Ret(e, Err("missing_child", "", 0, 0))
             ELSE remember(execute_node(e, value_node.v))
        ELSE IF token.v = "@recall" /\ key.some
        THEN Ret(e, Memory_recall(e.memory, key.v))
        ELSE Ret(e, Err("unknown_semantic_token", token.v, 0, 0))

\* the node kinds whose dispatch returns Void at once
VoidKinds == {"Parameter", "Case", "Otherwise", "Path", "Example"}

\* `self.start_time.unwrap().elapsed().as_millis()` at the dispatch the
\* engine has just counted
elapsed_millis(e) ==
    e.clock[IF e.instructions < Len(e.clock) THEN e.instructions
            ELSE Len(e.clock)]

\* the `match node.kind` of execute_node
dispatch(e1, node) ==
        CASE node.kind = "Program" -> execute_program(e1, node)
          [] node.kind = "Context" -> execute_context(e1, node)
          [] node.kind = "Function" -> execute_function(e1, node)
          [] node.kind = "Variable" -> execute_variable(e1, node)
          [] node.kind = "Statement" -> execute_statement(e1, node)
          [] node.kind = "Block" -> execute_block(e1, node)
          [] node.kind = "If" -> execute_if(e1, node)
          [] node.kind = "Return" -> execute_return(e1, node)
          [] node.kind = "With" -> execute_with(e1, node)
          [] node.kind = "Within" -> execute_within(e1, node)
          [] node.kind = "Assignment" -> execute_assignment(e1, node)
          [] node.kind = "Binary" -> execute_binary(e1, node)
          [] node.kind = "Literal" -> execute_literal(e1, node)
          [] node.kind = "Identifier" -> execute_identifier(e1, node)
          [] node.kind = "Call" -> execute_call(e1, node)
          [] node.kind = "Grouping" -> execute_grouping(e1, node)
          [] node.kind = "When" -> execute_when(e1, node)
          [] node.kind = "Semantic" -> execute_semantic(e1, node)
          [] node.kind \in VoidKinds -> Ret(e1, Ok(VoidV))

\* execute_node: counts the instruction, checks the two budgets, updates
\* the peak memory usage and dispatches on the node kind
execute_node_checking_afterwards(e, node) ==
    LET e1 == [e EXCEPT !.instructions = e.instructions + 1]
        max_time == e.options.max_time
        limited(r) ==
            IF max_time.some /\ elapsed_millis(e1) > max_time.v
            THEN Ret(r.e, Err("time_limit_exceeded", "", elapsed_millis(e1),
                              max_time.v))
            ELSE r
    IN  limited(dispatch(e1, node))

execute_node(e, node) ==
    LET e1 == [e EXCEPT !.instructions = e.instructions + 1]
        max_time == e.options.max_time
        max_memory == e.options.max_memory
        memory_usage == e.memory.memory_usage
    IN  IF max_time.some /\ elapsed_millis(e1) > max_time.v
        THEN Ret(e1, Err("time_limit_exceeded", "", elapsed_millis(e1),
                         max_time.v))
        ELSE IF max_memory.some /\ memory_usage > max_memory.v
        THEN Ret(e1, Err("memory_limit_exceeded", "", memory_usage,
                         max_memory.v))
        ELSE dispatch([e1 EXCEPT !.peak_memory =
                                     IF memory_usage > e1.peak_memory
                                     THEN memory_usage ELSE e1.peak_memory],
                      node)

\* Engine::execute: records the start time, resets the statistics and
\* executes the root of the tree
Engine_execute(e, root) ==
    execute_node([e EXCEPT !.instructions = 0, !.peak_memory = 0], root)

\* what the last call returned: the operation, the name it was about and its
\* Result; NoOutcome after the calls that return nothing
Outcome(op, n, res) == [op |-> op, name |-> n, res |-> res]
NoOutcome == Outcome("", "", [ok |-> TRUE, value |-> VoidV, error |-> NoError])

(***************************************************************************)
(* runtime/parallel.rs: Parallel::execute.  The caller spawns one thread   *)
(* per function; thread i is functions[i], and its position is threads[i]. *)
(***************************************************************************)
\* the (name, result) pairs a submitted function is drawn from
FunctionSet ==
    {<<"a", Ok(IntV(1))>>, <<"a", Err("failed", "a", 0, 0)>>,
     <<"b", Ok(IntV(1))>>}

RECURSIVE SeqsUpTo(_, _)
SeqsUpTo(S, n) ==
    IF n = 0 THEN {<<>>}
    ELSE LET shorter == SeqsUpTo(S, n - 1)
         IN  shorter \cup {Append(q, x) : q \in shorter, x \in S}

\* Modify::new: both caches are empty; no tree is being edited and no file
\* has been written
Modify_new ==
    /\ modified_ast = None
    /\ ast_cache = EmptyMap
    /\ source_cache = EmptyMap
    /\ files = EmptyMap

\* the budgets, the memory and the peak of an engine made with the default
\* options
Limits_new ==
    /\ options = EngineOptions_default
    /\ memory = Memory_new
    /\ peak_memory = 0

\* Parallel::new and the state of an executor nobody has called
Parallel_new ==
    /\ max_threads = 4
    /\ functions = <<>>
    /\ handles = <<>>
    /\ joining = 0
    /\ results = <<>>
    /\ lock = 0
    /\ threads = <<>>
    /\ pc = "idle"
    /\ channel = <<>>
    /\ timeout = 0
    /\ elapsed = 0

\* `std::cmp::min(functions.len(), self.max_threads)`
num_threads ==
    IF Len(functions) < max_threads THEN Len(functions) ELSE max_threads

Unspawned == {i \in 1..Len(threads) : threads[i] = "unspawned"}

\* the spawned threads no join has returned for
Unjoined ==
    {handles[k] : k \in 1..Len(handles)} \cup
    (IF joining = 0 THEN {} ELSE {joining})

\* what Parallel::execute returned: the pairs, or a panic of
\* `Arc::try_unwrap(results).unwrap()` when a thread still shares the vector
ParallelOutcome(pairs, panicked) ==
    [op |-> "Parallel::execute", name |-> "", pairs |-> pairs,
     panicked |-> panicked]

SetMaxThreads(n) ==
    /\ pc = "idle"
    /\ max_threads' = n
    /\ UNCHANGED <<engine_vars, modify_vars, limit_vars, result, functions, handles, joining, results,
                   lock, threads, pc, channel, timeout, elapsed>>

\* the call of Parallel::execute(fs): the results vector and the handles
\* are created, no thread is spawned yet
ParallelExecute(fs) ==
    /\ pc = "idle"
    /\ functions' = fs
    /\ threads' = [i \in 1..Len(fs) |-> "unspawned"]
    /\ results' = <<>>
    /\ handles' = <<>>
    /\ joining' = 0
    /\ lock' = 0
    /\ pc' = "spawn"
    /\ result' = NoOutcome
    /\ UNCHANGED <<engine_vars, modify_vars, limit_vars, max_threads, channel, timeout, elapsed>>

\* `thread::spawn(...)` and `handles.push(handle)` for the next function
Spawn ==
    /\ pc = "spawn"
    /\ Unspawned # {}
    /\ LET i == CHOOSE k \in Unspawned : \A m \in Unspawned : k <= m
       IN  /\ threads' = [threads EXCEPT ![i] = "run"]
           /\ handles' = Append(handles, i)
    /\ pc' = "limit"
    /\ UNCHANGED <<engine_vars, modify_vars, limit_vars, result, functions, max_threads, joining,
                   results, lock, channel, timeout, elapsed>>

\* a Limit that never pops a handle: every thread is joined at the end only
Limit_never_joining ==
    /\ pc = "limit"
    /\ pc' = "spawn"
    /\ UNCHANGED <<engine_vars, modify_vars, limit_vars, result, functions, max_threads, handles,
                   joining, results, lock, threads, channel, timeout,
                   elapsed>>

\* `if handles.len() >= num_threads { if let Some(handle) = handles.pop()`
Limit ==
    /\ pc = "limit"
    /\ IF Len(handles) >= num_threads /\ Len(handles) > 0
       THEN /\ joining' = handles[Len(handles)]
            /\ handles' = SubSeq(handles, 1, Len(handles) - 1)
            /\ pc' = "join"
       ELSE /\ pc' = "spawn"
            /\ UNCHANGED <<handles, joining>>
    /\ UNCHANGED <<engine_vars, modify_vars, limit_vars, result, functions, max_threads, results,
                   lock, threads, channel, timeout, elapsed>>

\* `handle.join().unwrap()` inside the loop returns
Join ==
    /\ pc = "join"
    /\ threads[joining] = "done"
    /\ joining' = 0
    /\ pc' = "spawn"
    /\ UNCHANGED <<engine_vars, modify_vars, limit_vars, result, functions, max_threads, handles,
                   results, lock, threads, channel, timeout, elapsed>>

\* the `for (name, function) in functions` loop is over
LoopExit ==
    /\ pc = "spawn"
    /\ Unspawned = {}
    /\ pc' = "join_all"
    /\ UNCHANGED <<engine_vars, modify_vars, limit_vars, result, functions, max_threads, handles,
                   joining, results, lock, threads, channel, timeout,
                   elapsed>>

\* a JoinNext that drops the handle without waiting for its thread
JoinNext_without_waiting ==
    /\ pc = "join_all"
    /\ handles # <<>>
    /\ handles' = Tail(handles)
    /\ UNCHANGED <<engine_vars, modify_vars, limit_vars, result, functions, max_threads, joining,
                   results, lock, threads, pc, channel, timeout, elapsed>>

\* `for handle in handles { handle.join().unwrap(); }`: the next join returns
JoinNext ==
    /\ pc = "join_all"
    /\ handles # <<>>
    /\ threads[Head(handles)] = "done"
    /\ handles' = Tail(handles)
    /\ UNCHANGED <<engine_vars, modify_vars, limit_vars, result, functions, max_threads, joining,
                   results, lock, threads, pc, channel, timeout, elapsed>>

\* `Arc::try_unwrap(results).unwrap().into_inner().unwrap()`
ParallelReturn ==
    /\ pc = "join_all"
    /\ handles = <<>>
    /\ result' = ParallelOutcome(results,
                     \E i \in 1..Len(threads) : threads[i] # "done")
    /\ pc' = "idle"
    /\ UNCHANGED <<engine_vars, modify_vars, limit_vars, functions, max_threads, handles, joining,
                   results, lock, threads, channel, timeout, elapsed>>

\* thread i: `let result = function();`
Run(i) ==
    /\ threads[i] = "run"
    /\ threads' = [threads EXCEPT ![i] = "lock"]
    /\ UNCHANGED <<engine_vars, modify_vars, limit_vars, result, functions, max_threads, handles,
                   joining, results, lock, pc, channel, timeout, elapsed>>

\* thread i: `results.lock().unwrap()` returns the guard
Lock(i) ==
    /\ threads[i] = "lock"
    /\ lock = 0
    /\ lock' = i
    /\ threads' = [threads EXCEPT ![i] = "push"]
    /\ UNCHANGED <<engine_vars, modify_vars, limit_vars, result, functions, max_threads, handles,
                   joining, results, pc, channel, timeout, elapsed>>

\* a Push after which the thread ends with the lock still taken
Push_keeping_lock(i) ==
    /\ threads[i] = "push"
    /\ results' = Append(results, functions[i])
    /\ threads' = [threads EXCEPT ![i] = "done"]
    /\ UNCHANGED <<engine_vars, modify_vars, limit_vars, result, functions, max_threads, handles,
                   joining, lock, pc, channel, timeout, elapsed>>

\* thread i: `results.push((name, result));`, then the closure ends and
\* drops the guard
Push(i) ==
    /\ threads[i] = "push"
    /\ results' = Append(results, functions[i])
    /\ lock' = 0
    /\ threads' = [threads EXCEPT ![i] = "done"]
    /\ UNCHANGED <<engine_vars, modify_vars, limit_vars, result, functions, max_threads, handles,
                   joining, pc, channel, timeout, elapsed>>

InitParallel ==
    /\ contexts = Context_new.contexts
    /\ current_context = Context_new.current_context
    /\ context_stack = Context_new.context_stack
    /\ scope_stack = Context_new.scope_stack
    /\ instructions = 0
    /\ result = NoOutcome
    /\ Parallel_new
    /\ Limits_new
    /\ Modify_new

NextParallel ==
    \/ \E n \in 0..MaxThreads : SetMaxThreads(n)
    \/ \E fs \in SeqsUpTo(FunctionSet, MaxFunctions) : ParallelExecute(fs)
    \/ Spawn
    \/ Limit
    \/ Join
    \/ LoopExit
    \/ JoinNext
    \/ ParallelReturn
    \/ \E i \in 1..Len(threads) : Run(i)
    \/ \E i \in 1..Len(threads) : Lock(i)
    \/ \E i \in 1..Len(threads) : Push(i)

SpecParallel == InitParallel /\ [][NextParallel]_vars

(***************************************************************************)
(* runtime/parallel.rs: Parallel::execute_with_timeout.  Every call opens  *)
(* a channel and spawns one thread; the thread of call i is threads[i] and *)
(* its function returns functions[i][2].  `channel` is the channel of the  *)
(* latest call, `elapsed` the time its caller has waited in recv_timeout.  *)
(* How long a function takes is not fixed: its thread may step at any time.*)
(***************************************************************************)
\* the results a function run under a timeout is drawn from
TimeoutFunctions == {Ok(IntV(1)), Ok(IntV(2)), Err("failed", "a", 0, 0)}

\* `RuntimeError::new(&format!("Function timed out after {:?}", timeout), ..)`
TimedOut(t) == Err("Function timed out after", "", t, 0)

TimeoutOutcome(res) == Outcome("Parallel::execute_with_timeout", "", res)

\* the call up to `receiver.recv_timeout(timeout)`: channel and thread exist
ExecuteWithTimeout(f, t) ==
    /\ pc = "idle"
    /\ Len(threads) < MaxCalls
    /\ functions' = Append(functions, <<"", f>>)
    /\ threads' = Append(threads, "run")
    /\ channel' = <<>>
    /\ timeout' = t
    /\ elapsed' = 0
    /\ pc' = "recv"
    /\ result' = NoOutcome
    /\ UNCHANGED <<engine_vars, modify_vars, limit_vars, max_threads, handles, joining, results, lock>>

\* the spawned thread of call i: `let result = function();`
TimeoutRun(i) ==
    /\ i \in 1..Len(threads)
    /\ threads[i] = "run"
    /\ threads' = [threads EXCEPT ![i] = "send"]
    /\ UNCHANGED <<engine_vars, modify_vars, limit_vars, result, functions, max_threads, handles,
                   joining, results, lock, pc, channel, timeout, elapsed>>

\* the spawned thread of call i: `let _ = sender.send(result);`.  The send
\* fails, and the failure is ignored, once the receiver has been dropped.
Send_after_return(i) ==
    /\ i \in 1..Len(threads)
    /\ threads[i] = "send"
    /\ IF i = Len(threads)
       THEN /\ channel' = Append(channel, functions[i][2])
            /\ threads' = [threads EXCEPT ![i] = "sent"]
       ELSE /\ channel' = channel
            /\ threads' = [threads EXCEPT ![i] = "dropped"]
    /\ UNCHANGED <<engine_vars, modify_vars, limit_vars, result, functions, max_threads, handles,
                   joining, results, lock, pc, timeout, elapsed>>

Send(i) ==
    /\ i \in 1..Len(threads)
    /\ threads[i] = "send"
    /\ IF pc = "recv" /\ i = Len(threads)
       THEN /\ channel' = Append(channel, functions[i][2])
            /\ threads' = [threads EXCEPT ![i] = "sent"]
       ELSE /\ channel' = channel
            /\ threads' = [threads EXCEPT ![i] = "dropped"]
    /\ UNCHANGED <<engine_vars, modify_vars, limit_vars, result, functions, max_threads, handles,
                   joining, results, lock, pc, timeout, elapsed>>

\* time passes while the caller waits in recv_timeout
Tick ==
    /\ pc = "recv"
    /\ elapsed < timeout
    /\ elapsed' = elapsed + 1
    /\ UNCHANGED <<engine_vars, modify_vars, limit_vars, result, functions, max_threads, handles,
                   joining, results, lock, threads, pc, channel, timeout>>

\* `Ok(result) => result`: a message is in the channel
Receive ==
    /\ pc = "recv"
    /\ channel # <<>>
    /\ result' = TimeoutOutcome(Head(channel))
    /\ channel' = Tail(channel)
    /\ pc' = "idle"
    /\ UNCHANGED <<engine_vars, modify_vars, limit_vars, functions, max_threads, handles, joining,
                   results, lock, threads, timeout, elapsed>>

\* `Err(_) => Err(RuntimeError::new("Function timed out after ..."))`: the
\* whole timeout has passed and the channel is empty.  The JoinHandle is
\* dropped, which detaches the thread.
Expire ==
    /\ pc = "recv"
    /\ channel = <<>>
    /\ elapsed = timeout
    /\ result' = TimeoutOutcome(TimedOut(timeout))
    /\ pc' = "idle"
    /\ UNCHANGED <<engine_vars, modify_vars, limit_vars, functions, max_threads, handles, joining,
                   results, lock, threads, channel, timeout, elapsed>>

NextTimeout ==
    \/ \E f \in TimeoutFunctions, t \in 0..MaxTimeout : ExecuteWithTimeout(f, t)
    \/ \E i \in 1..Len(threads) : TimeoutRun(i)
    \/ \E i \in 1..Len(threads) : Send(i)
    \/ Tick
    \/ Receive
    \/ Expire

\* the operating system schedules every spawned thread
SpecTimeout ==
    /\ InitParallel
    /\ [][NextTimeout]_vars
    /\ \A i \in 1..MaxCalls : WF_vars(TimeoutRun(i)) /\ WF_vars(Send(i))

(***************************************************************************)
(* The state of the context manager as one record, and its installation    *)
(***************************************************************************)
Ctx == [contexts |-> contexts, current_context |-> current_context,
        context_stack |-> context_stack, scope_stack |-> scope_stack]

SetCtx(c) ==
    /\ contexts' = c.contexts
    /\ current_context' = c.current_context
    /\ context_stack' = c.context_stack
    /\ scope_stack' = c.scope_stack
    /\ UNCHANGED <<parallel_vars, modify_vars, options>>

InitContext ==
    /\ contexts = Context_new.contexts
    /\ current_context = Context_new.current_context
    /\ context_stack = Context_new.context_stack
    /\ scope_stack = Context_new.scope_stack
    /\ instructions = 0
    /\ result = NoOutcome
    /\ Parallel_new
    /\ Limits_new
    /\ Modify_new

(***************************************************************************)
(* The context manager driven through its public methods                   *)
(***************************************************************************)
CreateContext(n) ==
    /\ SetCtx(create_context(Ctx, n))
    /\ result' = NoOutcome
    /\ UNCHANGED <<instructions, memory, peak_memory>>

SwitchContext(n) ==
    /\ Len(context_stack) < MaxSwitches
    /\ SetCtx(switch_context(Ctx, n))
    /\ result' = NoOutcome
    /\ UNCHANGED <<instructions, memory, peak_memory>>

SwitchBack ==
    /\ SetCtx(switch_back(Ctx))
    /\ result' = NoOutcome
    /\ UNCHANGED <<instructions, memory, peak_memory>>

PushFrame ==
    /\ Len(scope_stack) < MaxFrames
    /\ SetCtx(push_frame(Ctx))
    /\ result' = NoOutcome
    /\ UNCHANGED <<instructions, memory, peak_memory>>

PopFrame ==
    /\ SetCtx(pop_frame(Ctx))
    /\ result' = NoOutcome
    /\ UNCHANGED <<instructions, memory, peak_memory>>

RegisterVariable(n, v) ==
    /\ SetCtx(register_variable(Ctx, n, v))
    /\ result' = NoOutcome
    /\ UNCHANGED <<instructions, memory, peak_memory>>

AssignVariable(n, v) ==
    /\ SetCtx(assign_variable(Ctx, n, v).ctx)
    /\ result' = Outcome("assign_variable", n, assign_variable(Ctx, n, v).res)
    /\ UNCHANGED <<instructions, memory, peak_memory>>

NextContext ==
    \/ \E n \in CtxNames : CreateContext(n)
    \/ \E n \in CtxNames : SwitchContext(n)
    \/ SwitchBack
    \/ PushFrame
    \/ PopFrame
    \/ \E b \in Bindings : RegisterVariable(b[1], b[2])
    \/ \E b \in Bindings : AssignVariable(b[1], b[2])

SpecContext == InitContext /\ [][NextContext]_vars

(***************************************************************************)
(* parser/mod.rs: the trees the parser builds for the statements and       *)
(* expressions the engine is run on                                        *)
(***************************************************************************)
LiteralNode(i) == Node("Literal", [type |-> "Int", value |-> <<i>>], <<>>)
IdentifierNode(n) == Node("Identifier", [name |-> n], <<>>)
BinaryNode(op, l, r) == Node("Binary", [operator |-> op], <<l, r>>)
VariableNode(n, init) == Node("Variable", [name |-> n], <<init>>)
StatementNode(child) == Node("Statement", EmptyMap, <<child>>)
AssignmentNode(l, r) == Node("Assignment", EmptyMap, <<l, r>>)
ReturnNode(v) == Node("Return", EmptyMap, <<v>>)
BlockNode(children) == Node("Block", EmptyMap, children)
ParameterNode(n, t) == Node("Parameter", [name |-> n, type |-> t], <<>>)
FunctionNode(n, params, body) ==
    Node("Function", [name |-> n], Append(params, body))
ContextNode(n, children) == Node("Context", [name |-> n], children)
WithNode(n, body) == Node("With", [name |-> n], <<body>>)
WithinNode(n, body) == Node("Within", [name |-> n], <<body>>)
CallNode(callee, arguments) == Node("Call", EmptyMap, <<callee>> \o arguments)
ProgramNode(children) == Node("Program", EmptyMap, children)

\* the literal that evaluates to the Int value v
LiteralOf(v) == LiteralNode(v.i)

(***************************************************************************)
(* The statements the engine is run on                                     *)
(***************************************************************************)
\* `var y = 1;` and the expression statement `y;`
SimpleStatements ==
    {VariableNode("y", LiteralNode(1)), StatementNode(IdentifierNode("y"))}

SimpleBodies ==
    {BlockNode(<<>>)} \cup {BlockNode(<<st>>) : st \in SimpleStatements}

\* the `with context` and `within` statements nested at most d deep
RECURSIVE ContextStatements(_)
ContextStatements(d) ==
    IF d = 0 THEN {}
    ELSE LET bodies == SimpleBodies \cup
                       {BlockNode(<<st>>) : st \in ContextStatements(d - 1)}
         IN  {WithNode(n, b) : n \in CtxNames, b \in bodies} \cup
             {WithinNode(n, b) : n \in CtxNames, b \in bodies}

\* how deep the `with` and `within` statements of a tree nest
RECURSIVE Nesting(_)
Nesting(node) ==
    LET below == {Nesting(node.children[i]) : i \in 1..Len(node.children)}
        deepest == IF below = {} THEN 0
                   ELSE CHOOSE m \in below : \A k \in below : k <= m
    IN  IF node.kind \in {"With", "Within"} THEN deepest + 1 ELSE deepest

\* fn f(p: Int, q: Int) { y; return q; }
FunctionF ==
    FunctionNode("f", <<ParameterNode("p", "Int"), ParameterNode("q", "Int")>>,
                 BlockNode(<<StatementNode(IdentifierNode("y")),
                             ReturnNode(IdentifierNode("q"))>>))

FunctionDeclarations == {FunctionF}

\* a callee is an identifier, as the parser builds it, or a function
\* declaration, which evaluates to Function(name)
Callees ==
    {IdentifierNode("f"), IdentifierNode("y")} \cup FunctionDeclarations

ArgumentLists ==
    {<<>>, <<LiteralNode(1)>>, <<LiteralNode(1), LiteralNode(2)>>}

CalleeName(callee) == callee.attributes["name"]

\* the top-level declarations `var y = 1;` and assignments `y = 2;`
Declared == {<<"y", IntV(1)>>}
Assigned == {<<"y", IntV(2)>>}

(***************************************************************************)
(* One engine executing statement after statement                          *)
(***************************************************************************)
E == [context |-> Ctx, instructions |-> instructions, options |-> options,
      memory |-> memory, peak_memory |-> peak_memory, clock |-> <<0>>]

SetEngine(e) ==
    /\ SetCtx(e.context)
    /\ instructions' = e.instructions
    /\ memory' = e.memory
    /\ peak_memory' = e.peak_memory

Init ==
    /\ contexts = Engine_new.context.contexts
    /\ current_context = Engine_new.context.current_context
    /\ context_stack = Engine_new.context.context_stack
    /\ scope_stack = Engine_new.context.scope_stack
    /\ instructions = Engine_new.instructions
    /\ result = NoOutcome
    /\ Parallel_new
    /\ Limits_new
    /\ Modify_new

\* what the last run returned: the statement kind, the name it was about,
\* its Result and one number about the statement (how deep its `with` and
\* `within` statements nest, how many arguments its call passes)
Executed(op, n, k, res) == [op |-> op, name |-> n, info |-> k, res |-> res]

\* Engine::execute on the program that consists of the statement st
Execute(op, n, k, st) ==
    LET r == Engine_execute(E, ProgramNode(<<st>>))
    IN  /\ SetEngine(r.e)
        /\ result' = Executed(op, n, k, r.res)

ExecuteVariable(n, v) ==
    /\ v.t = "Int"
    /\ Execute("Variable", n, 0, VariableNode(n, LiteralOf(v)))

ExecuteAssignment(n, v) ==
    /\ v.t = "Int"
    /\ Execute("Assignment", n, 0,
               StatementNode(AssignmentNode(IdentifierNode(n), LiteralOf(v))))

ExecuteFunction(f) ==
    /\ f.kind = "Function"
    /\ Execute("Function", CalleeName(f), 0, f)

ExecuteWith(st) ==
    /\ st.kind = "With"
    /\ Len(context_stack) + Nesting(st) <= MaxCtxDepth
    /\ Execute("With", st.attributes["name"], Nesting(st), st)

ExecuteWithin(st) ==
    /\ st.kind = "Within"
    /\ Len(context_stack) + Nesting(st) <= MaxCtxDepth
    /\ Execute("Within", st.attributes["name"], Nesting(st), st)

ExecuteCall(callee, arguments) ==
    /\ Len(scope_stack) < MaxLeaked
    /\ Execute("Call", CalleeName(callee), Len(arguments),
               StatementNode(CallNode(callee, arguments)))

Next ==
    \/ \E b \in Declared : ExecuteVariable(b[1], b[2])
    \/ \E b \in Assigned : ExecuteAssignment(b[1], b[2])
    \/ \E f \in FunctionDeclarations : ExecuteFunction(f)
    \/ \E st \in ContextStatements(MaxCtxDepth) : ExecuteWith(st)
    \/ \E st \in ContextStatements(MaxCtxDepth) : ExecuteWithin(st)
    \/ \E callee \in Callees, arguments \in ArgumentLists :
           ExecuteCall(callee, arguments)

Spec == Init /\ [][Next]_vars

(***************************************************************************)
(* lib.rs execute: every run builds a new engine and executes one program  *)
(***************************************************************************)
ProgramContexts == {"C", "A", "global"}
Digits == 0..MaxDigit

\* context c { fn main() { var x = a + b; return x; } }
MainProgram(c, a, b) ==
    ProgramNode(<<ContextNode(c, <<
        FunctionNode("main", <<>>,
            BlockNode(<<VariableNode("x", BinaryNode("+", LiteralNode(a),
                                                         LiteralNode(b))),
                        ReturnNode(IdentifierNode("x"))>>))>>)>>)

\* var x = a + b; x;
StatementsProgram(a, b) ==
    ProgramNode(<<VariableNode("x", BinaryNode("+", LiteralNode(a),
                                                   LiteralNode(b))),
                  StatementNode(IdentifierNode("x"))>>)

\* what the last run of a program returned: the context the program
\* declares ("" when it declares none), its two literals and the Result
ProgramOutcome(c, a, b, res) ==
    [op |-> "execute", name |-> c, a |-> a, b |-> b, res |-> res]

ExecuteProgram(c, a, b, program) ==
    LET r == Engine_execute(Engine_new, program)
    IN  /\ SetEngine(r.e)
        /\ result' = ProgramOutcome(c, a, b, r.res)

ExecuteMain(c, a, b) ==
    /\ c # ""
    /\ ExecuteProgram(c, a, b, MainProgram(c, a, b))

ExecuteStatements(a, b) ==
    /\ a + b <= 2 * MaxDigit
    /\ ExecuteProgram("", a, b, StatementsProgram(a, b))

NextProgram ==
    \/ \E c \in ProgramContexts, a \in Digits, b \in Digits :
           ExecuteMain(c, a, b)
    \/ \E a \in Digits, b \in Digits : ExecuteStatements(a, b)

SpecProgram == Init /\ [][NextProgram]_vars

(***************************************************************************)
(* Engine::new(options): one engine with a time and a memory budget runs   *)
(* program after program.  clock[d] is the elapsed time the d-th dispatch  *)
(* of a run reads.                                                         *)
(***************************************************************************)
RememberNode(n, value) ==
    Node("Semantic", [token |-> "@remember", name |-> n], <<value>>)

\* `var y = 1;` and `@remember k = 1`
LimitedStatements ==
    {VariableNode("y", LiteralNode(1)), RememberNode("k", LiteralNode(1))}

RECURSIVE StatementLists(_, _)
StatementLists(statements, n) ==
    IF n = 0 THEN {<<>>}
    ELSE LET shorter == StatementLists(statements, n - 1)
         IN  shorter \cup {Append(l, st) : l \in shorter, st \in statements}

LimitedPrograms ==
    {ProgramNode(l) : l \in StatementLists(LimitedStatements, MaxStatements)
                          \ {<<>>}}

\* the root and, for every statement, the statement and its literal
Dispatches(program) == 1 + 2 * Len(program.children)
MaxDispatches == 1 + 2 * MaxStatements

\* the clocks: the elapsed time is 0 up to some dispatch and MaxElapsed
\* from then on
Clocks ==
    {[d \in 1..MaxDispatches |-> IF d < late THEN 0 ELSE MaxElapsed] :
        late \in 1..(MaxDispatches + 1)}

TimeBudgets == {None, Some(0), Some(MaxElapsed)}
MemoryBudgets == {None, Some(0), Some(8)}

InitLimits ==
    /\ contexts = Engine_new.context.contexts
    /\ current_context = Engine_new.context.current_context
    /\ context_stack = Engine_new.context.context_stack
    /\ scope_stack = Engine_new.context.scope_stack
    /\ instructions = Engine_new.instructions
    /\ result = NoOutcome
    /\ Parallel_new
    /\ Modify_new
    /\ options \in [max_memory : MemoryBudgets, max_time : TimeBudgets]
    /\ memory = Memory_new
    /\ peak_memory = 0

\* what the last run was given and what it returned
Limited(program, clock, res) ==
    [op |-> "limited", program |-> program, clock |-> clock, res |-> res]

ExecuteLimited(program, clock) ==
    LET finish(r) ==
            /\ SetEngine(r.e)
            /\ result' = Limited(program, clock, r.res)
    IN  /\ memory.memory_usage < MaxUsage
        /\ finish(Engine_execute([E EXCEPT !.clock = clock], program))

NextLimits ==
    \E program \in LimitedPrograms, clock \in Clocks :
        ExecuteLimited(program, clock)

SpecLimits == InitLimits /\ [][NextLimits]_vars

(***************************************************************************)
(* parse_when_statement and execute_when: a new engine runs one `when`     *)
(* statement.  The block of the i-th case remembers a value under the i-th *)
(* name, so that the memory of the engine shows which blocks have run.     *)
(***************************************************************************)
OtherwiseNode == Node("Otherwise", EmptyMap, <<>>)
CaseNode(expression, body) == Node("Case", EmptyMap, <<expression, body>>)
WhenNode(expression, cases) == Node("When", EmptyMap, <<expression>> \o cases)

BlockNames == <<"first", "second", "third", "fourth">>

\* a case label is a literal, or None for `otherwise`
CaseLabels == {None, Some(1), Some(2)}
WhenSubjects == {1, 2, 3}

RECURSIVE LabelLists(_)
LabelLists(n) ==
    IF n = 0 THEN {<<>>}
    ELSE LET shorter == LabelLists(n - 1)
         IN  shorter \cup
             {Append(l, label) : l \in {k \in shorter : Len(k) = n - 1},
                                label \in CaseLabels}

\* `when (subject) { label => { @remember name = 1; } ... }`
WhenStatement(subject, labels) ==
    WhenNode(LiteralNode(subject),
             [i \in 1..Len(labels) |->
                 CaseNode(IF labels[i].some THEN LiteralNode(labels[i].v)
                          ELSE OtherwiseNode,
                          BlockNode(<<RememberNode(BlockNames[i],
                                                   LiteralNode(1))>>))])

WhenOutcome(subject, labels, res) ==
    [op |-> "when", subject |-> subject, labels |-> labels, res |-> res]

ExecuteWhen(subject, labels) ==
    LET finish(r) ==
            /\ SetEngine(r.e)
            /\ result' = WhenOutcome(subject, labels, r.res)
    IN  finish(Engine_execute(Engine_new,
                              ProgramNode(<<WhenStatement(subject, labels)>>)))

NextWhen ==
    \E subject \in WhenSubjects, labels \in LabelLists(MaxCases) :
        ExecuteWhen(subject, labels)

SpecWhen == Init /\ [][NextWhen]_vars

(***************************************************************************)
(* runtime/engine.rs: divide and modulo.  Value::Int is a two's complement *)
(* integer, of IntBits bits here.  Value::Float is a binary floating-point *)
(* number: the model keeps the zeros, the infinities, NaN and the powers   *)
(* of two from 2^-MaxExponent to 2^MaxExponent of either sign, and rounds  *)
(* as IEEE 754 does: a quotient above the largest number is an infinity,   *)
(* one below the smallest is a zero.                                       *)
(***************************************************************************)
IntMin == -(2 ^ (IntBits - 1))
IntMax == 2 ^ (IntBits - 1) - 1
Ints == IntMin..IntMax

FloatV(sign, class, exponent) ==
    [t |-> "Float", sign |-> sign, class |-> class, exponent |-> exponent]
Signs == {1, -1}
NaN == FloatV(1, "nan", 0)
Infinity(sign) == FloatV(sign, "inf", 0)
Zero(sign) == FloatV(sign, "zero", 0)
FiniteFloats ==
    {Zero(sign) : sign \in Signs} \cup
    {FloatV(sign, "finite", exponent) :
        sign \in Signs, exponent \in (-MaxExponent)..MaxExponent}

Abs(a) == IF a < 0 THEN -a ELSE a

\* `a / b` and `a % b` on i64: the quotient is rounded towards zero, the
\* remainder has the sign of a, and IntMin / -1 and IntMin % -1 panic
\* ("attempt to divide with overflow") in every build profile
int_div(a, b) ==
    IF (a < 0) = (b < 0) THEN Abs(a) \div Abs(b) ELSE -(Abs(a) \div Abs(b))
int_rem(a, b) == a - b * int_div(a, b)
Panic(message) == Err("panic", message, 0, 0)

\* `a as f64`, for the integers the float format of the model holds
RECURSIVE Log2(_)
Log2(n) == IF n <= 1 THEN 0 ELSE 1 + Log2(n \div 2)
ExactInts ==
    {a \in Ints : a = 0 \/ (2 ^ Log2(Abs(a)) = Abs(a)
                                /\ Log2(Abs(a)) <= MaxExponent)}
as_f64(a) ==
    IF a = 0 THEN Zero(1)
    ELSE FloatV(IF a < 0 THEN -1 ELSE 1, "finite", Log2(Abs(a)))

\* `a / b` on f64
float_div(a, b) ==
    LET sign == a.sign * b.sign
    IN  IF a.class = "nan" \/ b.class = "nan" THEN NaN
        ELSE IF a.class = "inf"
        THEN IF b.class = "inf" THEN NaN ELSE Infinity(sign)
        ELSE IF b.class = "inf" THEN Zero(sign)
        ELSE IF b.class = "zero"
        THEN IF a.class = "zero" THEN NaN ELSE Infinity(sign)
        ELSE IF a.class = "zero" THEN Zero(sign)
        ELSE IF a.exponent - b.exponent > MaxExponent THEN Infinity(sign)
        ELSE IF a.exponent - b.exponent < -MaxExponent THEN Zero(sign)
        ELSE FloatV(sign, "finite", a.exponent - b.exponent)

\* `a % b` on f64: the remainder of the division rounded towards zero, with
\* the sign of a
float_rem(a, b) ==
    IF a.class = "nan" \/ b.class = "nan" THEN NaN
    ELSE IF a.class = "inf" \/ b.class = "zero" THEN NaN
    ELSE IF b.class = "inf" \/ a.class = "zero" THEN a
    ELSE IF a.exponent >= b.exponent THEN Zero(a.sign)
    ELSE a

\* `*b == 0.0`
is_zero(b) == b.class = "zero"

divide(a, b) ==
    IF a.t = "Int" /\ b.t = "Int"
    THEN IF b.i = 0 THEN Err("division_by_zero", "", 0, 0)
         ELSE IF a.i = IntMin /\ b.i = -1
         THEN Panic("attempt to divide with overflow")
         ELSE Ok(IntV(int_div(a.i, b.i)))
    ELSE IF a.t = "Float" /\ b.t = "Float"
    THEN IF is_zero(b) THEN Err("division_by_zero", "", 0, 0)
         ELSE Ok(float_div(a, b))
    ELSE IF a.t = "Int" /\ b.t = "Float"
    THEN IF is_zero(b) THEN Err("division_by_zero", "", 0, 0)
         ELSE Ok(float_div(as_f64(a.i), b))
    ELSE IF a.t = "Float" /\ b.t = "Int"
    THEN IF b.i = 0 THEN Err("division_by_zero", "", 0, 0)
         ELSE Ok(float_div(a, as_f64(b.i)))
    ELSE Err("invalid_operation", "/", 0, 0)

modulo(a, b) ==
    IF a.t = "Int" /\ b.t = "Int"
    THEN IF b.i = 0 THEN Err("division_by_zero", "", 0, 0)
         ELSE IF a.i = IntMin /\ b.i = -1
         THEN Panic("attempt to calculate the remainder with overflow")
         ELSE Ok(IntV(int_rem(a.i, b.i)))
    ELSE IF a.t = "Float" /\ b.t = "Float"
    THEN IF is_zero(b) THEN Err("division_by_zero", "", 0, 0)
         ELSE Ok(float_rem(a, b))
    ELSE IF a.t = "Int" /\ b.t = "Float"
    THEN IF is_zero(b) THEN Err("division_by_zero", "", 0, 0)
         ELSE Ok(float_rem(as_f64(a.i), b))
    ELSE IF a.t = "Float" /\ b.t = "Int"
    THEN IF b.i = 0 THEN Err("division_by_zero", "", 0, 0)
         ELSE Ok(float_rem(a, as_f64(b.i)))
    ELSE Err("invalid_operation", "%", 0, 0)

\* the operands: every Int, every finite Float and a Bool; next to a Float
\* only the Ints the float format holds
Operands == {IntV(a) : a \in Ints} \cup FiniteFloats \cup {BoolV(TRUE)}
Convertible(a, b) ==
    /\ (a.t = "Int" /\ b.t = "Float") => a.i \in ExactInts
    /\ (a.t = "Float" /\ b.t = "Int") => b.i \in ExactInts

Applied(op, a, b, res) == [op |-> op, a |-> a, b |-> b, res |-> res]

Divide(a, b) ==
    /\ Convertible(a, b)
    /\ result' = Applied("/", a, b, divide(a, b))
    /\ UNCHANGED <<engine_vars, parallel_vars, modify_vars, limit_vars>>

Modulo(a, b) ==
    /\ Convertible(a, b)
    /\ result' = Applied("%", a, b, modulo(a, b))
    /\ UNCHANGED <<engine_vars, parallel_vars, modify_vars, limit_vars>>

NextArithmetic ==
    \/ \E a \in Operands, b \in Operands : Divide(a, b)
    \/ \E a \in Operands, b \in Operands : Modulo(a, b)

SpecArithmetic == Init /\ [][NextArithmetic]_vars

(***************************************************************************)
(* runtime/engine.rs: execute_parallel.  The paths run one after another   *)
(* on the calling engine; times[i] is what `Instant` measured for child i. *)
(***************************************************************************)
PathNames == {"a", "b"}
Strategies == {"fastest", "best", "all"}

\* name: { v; }
PathNode(n, v) ==
    Node("Path", [name |-> n], <<BlockNode(<<StatementNode(LiteralNode(v))>>)>>)

\* parallel { paths } select strategy;
ParallelNode(strategy, paths) == Node("Parallel", [strategy |-> strategy], paths)

\* Value::List
ListV(values) == [t |-> "List", i |-> 0, s |-> "", items |-> values]

\* EngineOptions::default().parallel
options_parallel == TRUE

\* `for child in &node.children { ... }` from child i on: the (name, result)
\* and (name, execution_time) vectors filled so far
RECURSIVE execute_paths(_, _, _, _, _, _)
execute_paths(e, node, times, i, path_results, execution_times) ==
    IF i > Len(node.children)
    THEN [e |-> e, res |-> Ok(VoidV), path_results |-> path_results,
          execution_times |-> execution_times]
    ELSE LET child == node.children[i]
             name == get_attribute(child, "name")
             body == get_child(child, 0)
         IN  IF child.kind # "Path"
             THEN execute_paths(e, node, times, i + 1, path_results, execution_times)
             ELSE IF ~name.some
             THEN [e |-> e, res |-> Err("missing_attribute", "name", 0, 0),
                   path_results |-> path_results, execution_times |-> execution_times]
             ELSE IF ~body.some
             THEN [e |-> e, res |-> Err("missing_child", "", 0, 0),
                   path_results |-> path_results, execution_times |-> execution_times]
             ELSE LET push(r) ==
                          IF ~r.res.ok
                          THEN [e |-> r.e, res |-> r.res,
                                path_results |-> path_results,
                                execution_times |-> execution_times]
                          ELSE execute_paths(r.e, node, times, i + 1,
                                   Append(path_results, <<name.v, r.res.value>>),
                                   Append(execution_times, <<name.v, times[i]>>))
                  IN  push(execute_node(e, body.v))

\* `execution_times.iter().min_by_key(|(_, time)| time)`: the first of the
\* entries with the lowest time
min_by_key(execution_times) ==
    IF execution_times = <<>> THEN None
    ELSE Some(execution_times[
             CHOOSE k \in 1..Len(execution_times) :
                /\ \A m \in 1..Len(execution_times) :
                      execution_times[k][2] <= execution_times[m][2]
                /\ \A m \in 1..(k - 1) :
                      execution_times[m][2] > execution_times[k][2]])

\* `results.iter().find(|(n, _)| n == name)`: the first entry with the name
find(path_results, name) ==
    LET hits == {k \in 1..Len(path_results) : path_results[k][1] = name}
    IN  IF hits = {} THEN None
        ELSE Some(path_results[CHOOSE k \in hits : \A m \in hits : k <= m])

execute_parallel(e, node, times) ==
    LET strategy == get_attribute(node, "strategy")
    IN  IF ~options_parallel
        THEN Ret(e, Err("feature_disabled", "Parallel", 0, 0))
        ELSE IF ~strategy.some
        THEN Ret(e, Err("missing_attribute", "strategy", 0, 0))
        ELSE LET select(p) ==
                   LET fastest == min_by_key(p.execution_times)
                   IN  IF ~p.res.ok THEN Ret(p.e, p.res)
                       ELSE CASE strategy.v = "fastest" ->
                                   IF ~fastest.some
                                   THEN Ret(p.e, Err("no_paths", "", 0, 0))
                                   ELSE Ret(p.e, Ok(find(p.path_results,
                                                         fastest.v[1]).v[2]))
                              [] strategy.v = "best" ->
                                   IF p.path_results = <<>>
                                   THEN Ret(p.e, Err("no_paths", "", 0, 0))
                                   ELSE Ret(p.e, Ok(p.path_results[1][2]))
                              [] strategy.v = "all" ->
                                   Ret(p.e, Ok(ListV([k \in 1..Len(p.path_results) |->
                                                         p.path_results[k][2]])))
                              [] OTHER ->
                                   Ret(p.e, Err("invalid_strategy", strategy.v, 0, 0))
             IN  select(execute_paths(e, node, times, 1, <<>>, <<>>))

\* the last parallel statement run: its strategy, the <<name, literal>> of
\* its paths, the times measured for them and the Result
SelectOutcome(strategy, paths, times, res) ==
    [op |-> "execute_parallel", name |-> strategy, paths |-> paths,
     times |-> times, res |-> res]

\* one parallel statement on a new engine.  execute_node counts the
\* statement before it dispatches to execute_parallel.
ExecuteParallel(strategy, paths, times) ==
    LET node == ParallelNode(strategy,
                    [k \in 1..Len(paths) |-> PathNode(paths[k][1], paths[k][2])])
        e1 == [Engine_new EXCEPT !.instructions = 1]
        return(r) ==
            /\ SetEngine(r.e)
            /\ result' = SelectOutcome(strategy, paths, times, r.res)
    IN  /\ Len(times) = Len(paths)
        /\ return(execute_parallel(e1, node, times))

NextSelect ==
    \E strategy \in Strategies,
       paths \in SeqsUpTo(PathNames \X (1..2), MaxPaths),
       times \in SeqsUpTo(1..MaxTime, MaxPaths) :
          ExecuteParallel(strategy, paths, times)

SpecSelect == Init /\ [][NextSelect]_vars

(***************************************************************************)
(* runtime/modify.rs: the modifications of a tree.  A path is a sequence   *)
(* of child indices counted from 0; every operation returns the tree it    *)
(* leaves behind together with its Result.                                 *)
(***************************************************************************)
\* Ast::new
Ast_new(root) == [root |-> root]

\* the variants of enum Modification
ReplaceNode(path, new_node) ==
    [op |-> "ReplaceNode", path |-> path, new_node |-> new_node]
InsertNode(path, new_node, position) ==
    [op |-> "InsertNode", path |-> path, new_node |-> new_node,
     position |-> position]
DeleteNode(path) == [op |-> "DeleteNode", path |-> path]
ModifyAttribute(path, name, value) ==
    [op |-> "ModifyAttribute", path |-> path, name |-> name, value |-> value]

Modified(ast, res) == [ast |-> ast, res |-> res]

RECURSIVE get_node_mut_recursive(_, _, _)
get_node_mut_recursive(node, path, depth) ==
    IF depth = Len(path) THEN Ok(node)
    ELSE LET index == path[depth + 1]
         IN  IF index >= Len(node.children)
             THEN Err("Invalid path", "", 0, 0)
             ELSE get_node_mut_recursive(node.children[index + 1], path,
                                         depth + 1)

get_node_mut(ast, path) == get_node_mut_recursive(ast.root, path, 0)

\* the tree after `*node = new` through the `&mut Node` that get_node_mut
\* returned for the path
RECURSIVE write_node(_, _, _, _)
write_node(node, path, depth, new) ==
    IF depth = Len(path) THEN new
    ELSE [node EXCEPT !.children[path[depth + 1] + 1] =
                          write_node(@, path, depth + 1, new)]

\* Vec::insert and Vec::remove, positions counted from 0
Vec_insert(v, position, x) ==
    SubSeq(v, 1, position) \o <<x>> \o SubSeq(v, position + 1, Len(v))
Vec_remove(v, index) == SubSeq(v, 1, index) \o SubSeq(v, index + 2, Len(v))

replace_node(ast, path, new_node) ==
    LET node == get_node_mut(ast, path)
    IN  IF ~node.ok THEN Modified(ast, node)
        ELSE Modified(Ast_new(write_node(ast.root, path, 0, new_node)),
                      Ok(VoidV))

insert_node_without_check(ast, path, new_node, position) ==
    LET node == get_node_mut(ast, path)
        at == IF position > Len(node.value.children)
              THEN Len(node.value.children) ELSE position
    IN  IF ~node.ok THEN Modified(ast, node)
        ELSE Modified(Ast_new(write_node(ast.root, path, 0,
                         [node.value EXCEPT !.children =
                             Vec_insert(@, at, new_node)])),
                      Ok(VoidV))

insert_node(ast, path, new_node, position) ==
    LET node == get_node_mut(ast, path)
    IN  IF ~node.ok THEN Modified(ast, node)
        ELSE IF position > Len(node.value.children)
        THEN Modified(ast, Err("Invalid position", "", position, 0))
        ELSE Modified(Ast_new(write_node(ast.root, path, 0,
                         [node.value EXCEPT !.children =
                             Vec_insert(@, position, new_node)])),
                      Ok(VoidV))

delete_node(ast, path) ==
    IF path = <<>>
    THEN Modified(ast, Err("Cannot delete the root node", "", 0, 0))
    ELSE LET parent_path == SubSeq(path, 1, Len(path) - 1)
             index == path[Len(path)]
             parent == get_node_mut(ast, parent_path)
         IN  IF ~parent.ok THEN Modified(ast, parent)
             ELSE IF index >= Len(parent.value.children)
             THEN Modified(ast, Err("Invalid index", "", index, 0))
             ELSE Modified(Ast_new(write_node(ast.root, parent_path, 0,
                              [parent.value EXCEPT !.children =
                                  Vec_remove(@, index)])),
                           Ok(VoidV))

modify_attribute_toggling(ast, path, name, value) ==
    LET node == get_node_mut(ast, path)
    IN  IF ~node.ok THEN Modified(ast, node)
        ELSE Modified(Ast_new(write_node(ast.root, path, 0,
                         [node.value EXCEPT !.attributes =
                             IF Get(@, name) = Some(value)
                             THEN [k \in (DOMAIN @) \ {name} |-> @[k]]
                             ELSE Put(@, name, value)])),
                      Ok(VoidV))

modify_attribute(ast, path, name, value) ==
    LET node == get_node_mut(ast, path)
    IN  IF ~node.ok THEN Modified(ast, node)
        ELSE Modified(Ast_new(write_node(ast.root, path, 0,
                         [node.value EXCEPT !.attributes =
                             Put(@, name, value)])),
                      Ok(VoidV))

\* one arm of the `match modification` of modify_ast
apply_modification(ast, m) ==
    CASE m.op = "ReplaceNode" -> replace_node(ast, m.path, m.new_node)
      [] m.op = "InsertNode" ->
             insert_node(ast, m.path, m.new_node, m.position)
      [] m.op = "DeleteNode" -> delete_node(ast, m.path)
      [] m.op = "ModifyAttribute" ->
             modify_attribute(ast, m.path, m.name, m.value)

\* `for modification in modifications { ...? }` from modification i on
RECURSIVE modify_ast_from(_, _, _)
modify_ast_from(ast, modifications, i) ==
    IF i > Len(modifications) THEN Modified(ast, Ok(VoidV))
    ELSE LET r == apply_modification(ast, modifications[i])
         IN  IF ~r.res.ok THEN r
             ELSE modify_ast_from(r.ast, modifications, i + 1)

modify_ast_restoring(ast, modifications) ==
    LET r == modify_ast_from(ast, modifications, 1)
    IN  IF r.res.ok THEN r ELSE Modified(ast, r.res)

modify_ast(ast, modifications) == modify_ast_from(ast, modifications, 1)

\* Modify::get_node: the node a path leads to, read without changing the tree
RECURSIVE get_node_from(_, _, _)
get_node_from(node, path, i) ==
    IF i > Len(path) THEN Ok(node)
    ELSE IF path[i] >= Len(node.children) THEN Err("Invalid path", "", 0, 0)
    ELSE get_node_from(node.children[path[i] + 1], path, i + 1)

get_node(ast, path) == get_node_from(ast.root, path, 1)

\* the trees, paths and modifications of the model
Trees ==
    {ProgramNode(<<>>),
     ProgramNode(<<VariableNode("y", LiteralNode(1))>>),
     ProgramNode(<<VariableNode("y", LiteralNode(1)),
                   StatementNode(IdentifierNode("y"))>>)}
Paths == {<<>>, <<0>>, <<1>>, <<0, 0>>, <<0, 1>>}
NewNodes == {LiteralNode(2)}
Positions == {0, 1, 2}
AttributeValues == {"x", "y"}
Modifications ==
    {ReplaceNode(path, n) : path \in Paths, n \in NewNodes} \cup
    {InsertNode(path, n, position) :
        path \in Paths, n \in NewNodes, position \in Positions} \cup
    {DeleteNode(path) : path \in Paths} \cup
    {ModifyAttribute(path, "name", v) : path \in Paths, v \in AttributeValues}

\* the last call of modify_ast: its batch, the tree it was given and the Result
ModifyOutcome(modifications, before, res) ==
    [op |-> "modify_ast", name |-> "", modifications |-> modifications,
     before |-> before, res |-> res]

\* modify_ast on a tree nobody has edited yet (execute_modification and
\* execute_self_modifying hand it a fresh clone)
ModifyAst(modifications) ==
    /\ result = NoOutcome
    /\ LET r == modify_ast(modified_ast.v, modifications)
       IN  /\ modified_ast' = Some(r.ast)
           /\ result' = ModifyOutcome(modifications, modified_ast.v, r.res)
    /\ UNCHANGED <<engine_vars, parallel_vars, limit_vars, ast_cache, source_cache,
                   files>>

InitModify ==
    /\ contexts = Context_new.contexts
    /\ current_context = Context_new.current_context
    /\ context_stack = Context_new.context_stack
    /\ scope_stack = Context_new.scope_stack
    /\ instructions = 0
    /\ result = NoOutcome
    /\ Parallel_new
    /\ Limits_new
    /\ modified_ast \in {Some(Ast_new(root)) : root \in Trees}
    /\ ast_cache = EmptyMap
    /\ source_cache = EmptyMap
    /\ files = EmptyMap

NextModify ==
    /\ result = NoOutcome
    /\ \E modifications \in SeqsUpTo(Modifications, MaxBatch) :
          ModifyAst(modifications)

SpecModify == InitModify /\ [][NextModify]_vars

(***************************************************************************)
(* lexer/mod.rs: the lexer.  A source text is a sequence of characters, a  *)
(* character a string of length one; positions count from 1 here and from  *)
(* 0 in the source.  Token locations are left out.                         *)
(***************************************************************************)
Letters ==
    {"a", "b", "c", "d", "e", "f", "g", "h", "i", "j", "k", "l", "m",
     "n", "o", "p", "q", "r", "s", "t", "u", "v", "w", "x", "y", "z",
     "A", "B", "C", "D", "E", "F", "G", "H", "I", "J", "K", "L", "M",
     "N", "O", "P", "Q", "R", "S", "T", "U", "V", "W", "X", "Y", "Z"}
DigitChars == {"0", "1", "2", "3", "4", "5", "6", "7", "8", "9"}
OperatorChars ==
    {"+", "-", "*", "/", "%", "=", "!", "<", ">", "&", "|", "^"}
DelimiterChars == {"(", ")", "{", "}", "[", "]", ";", ",", ".", ":"}
Whitespace == {" ", "\n"}
SourceChars ==
    Letters \cup {"_", "\"", "\\", "#", "@", "~"} \cup DigitChars \cup
    OperatorChars \cup DelimiterChars \cup Whitespace

\* the words identifier_or_keyword makes keywords of
Keywords ==
    {<<"c", "o", "n", "t", "e", "x", "t">>, <<"f", "n">>,
     <<"v", "a", "r">>, <<"i", "f">>, <<"e", "l", "s", "e">>,
     <<"w", "h", "e", "n">>,
     <<"o", "t", "h", "e", "r", "w", "i", "s", "e">>,
     <<"p", "a", "r", "a", "l", "l", "e", "l">>,
     <<"s", "e", "l", "e", "c", "t">>, <<"r", "e", "t", "u", "r", "n">>,
     <<"w", "i", "t", "h">>, <<"w", "i", "t", "h", "i", "n">>,
     <<"i", "n", "t", "e", "n", "t">>,
     <<"e", "x", "a", "m", "p", "l", "e", "s">>,
     <<"t", "r", "a", "n", "s", "f", "o", "r", "m">>,
     <<"i", "n", "t", "o">>, <<"a", "p", "p", "l", "y">>,
     <<"f", "o", "r">>, <<"i", "n">>, <<"t", "r", "u", "e">>,
     <<"f", "a", "l", "s", "e">>, <<"n", "u", "l", "l">>,
     <<"a", "n", "d">>, <<"o", "r">>, <<"n", "o", "t">>,
     <<"v", "e", "c", "t", "o", "r">>, <<"t", "o">>, <<"I", "n", "t">>,
     <<"F", "l", "o", "a", "t">>, <<"S", "t", "r", "i", "n", "g">>,
     <<"B", "o", "o", "l">>, <<"L", "i", "s", "t">>, <<"M", "a", "p">>,
     <<"V", "e", "c", "t", "o", "r">>,
     <<"C", "o", "n", "t", "e", "x", "t">>,
     <<"f", "a", "s", "t", "e", "s", "t">>, <<"b", "e", "s", "t">>,
     <<"a", "l", "l">>, <<"p", "a", "t", "h">>}

Token(kind, value) == [kind |-> kind, value |-> value]
Lexed(token, position) == [ok |-> TRUE, token |-> token, position |-> position]
LexerError(message, c, position) ==
    [ok |-> FALSE, message |-> message, token |-> Token("", c),
     position |-> position]

\* `self.peek()` with the lexer at position p: the character there, if any
Lexer_peek(source, p) == IF p <= Len(source) THEN Some(source[p]) ELSE None

RECURSIVE skip_whitespace(_, _)
skip_whitespace(source, p) ==
    IF p <= Len(source) /\ source[p] \in Whitespace
    THEN skip_whitespace(source, p + 1)
    ELSE p

\* the position after the alphanumeric characters and underscores from p on
RECURSIVE identifier_end(_, _)
identifier_end(source, p) ==
    IF p <= Len(source) /\ source[p] \in Letters \cup DigitChars \cup {"_"}
    THEN identifier_end(source, p + 1)
    ELSE p

identifier_or_keyword(source, start) ==
    LET end == identifier_end(source, start + 1)
        identifier == SubSeq(source, start, end - 1)
    IN  Lexed(Token(IF identifier \in Keywords THEN "Keyword"
                    ELSE "Identifier", identifier), end)

\* the position after the decimal digits from p on
RECURSIVE digits_end(_, _)
digits_end(source, p) ==
    IF p <= Len(source) /\ source[p] \in DigitChars
    THEN digits_end(source, p + 1)
    ELSE p

\* the `while let Some(c) = self.peek()` loop of number()
RECURSIVE number_from(_, _, _)
number_from(source, p, is_float) ==
    IF p > Len(source) THEN [position |-> p, is_float |-> is_float]
    ELSE IF /\ source[p] = "."
            /\ ~is_float
            /\ Lexer_peek(source, p + 1).some
            /\ Lexer_peek(source, p + 1).v \in DigitChars
    THEN number_from(source, p + 1, TRUE)
    ELSE IF source[p] \in DigitChars THEN number_from(source, p + 1, is_float)
    ELSE IF source[p] \in {"e", "E"}
    THEN LET sign == Lexer_peek(source, p + 1)
             q == IF sign.some /\ sign.v \in {"+", "-"} THEN p + 2 ELSE p + 1
         IN  IF ~(Lexer_peek(source, q).some /\ source[q] \in DigitChars)
             THEN [position |-> q, is_float |-> is_float]
             ELSE [position |-> digits_end(source, q), is_float |-> TRUE]
    ELSE [position |-> p, is_float |-> is_float]

number(source, start) ==
    LET n == number_from(source, start + 1, FALSE)
    IN  Lexed(Token(IF n.is_float THEN "FloatLiteral" ELSE "IntLiteral",
                    SubSeq(source, start, n.position - 1)), n.position)

\* the `while let Some(c) = self.peek()` loop of string(): the position of
\* the closing quote, or the end of the text
RECURSIVE string_from(_, _)
string_from(source, p) ==
    IF p > Len(source) THEN p
    ELSE IF source[p] = "\"" THEN p
    ELSE IF source[p] = "\\"
    THEN IF p + 1 > Len(source) THEN p + 1 ELSE string_from(source, p + 2)
    ELSE string_from(source, p + 1)

\* the token value is the text from the opening quote to the closing quote,
\* both included
string(source, start) ==
    LET close == string_from(source, start + 1)
        end == IF Lexer_peek(source, close) = Some("\"") THEN close + 1
               ELSE close
    IN  Lexed(Token("StringLiteral", SubSeq(source, start, end - 1)), end)

\* the characters that make a two-character operator with the first one
operator_second(first) ==
    CASE first \in {"+", "*", "/", "%", "!", "<", ">"} -> {"="}
      [] first \in {"-", "="} -> {"=", ">"}
      [] first = "&" -> {"&"}
      [] first = "|" -> {"|"}
      [] OTHER -> {}

operator(source, start) ==
    LET second == Lexer_peek(source, start + 1)
        end == IF second.some /\ second.v \in operator_second(source[start])
               THEN start + 2 ELSE start + 1
    IN  Lexed(Token("Operator", SubSeq(source, start, end - 1)), end)

delimiter(source, start) ==
    Lexed(Token("Delimiter", <<source[start]>>), start + 1)

\* skip_line_comment with the lexer at the `//`: the position after the
\* line break that ends the comment, or the end of the text
RECURSIVE line_end(_, _)
line_end(source, p) ==
    IF p > Len(source) THEN p
    ELSE IF source[p] = "\n" THEN p + 1
    ELSE line_end(source, p + 1)

skip_line_comment(source, start) == line_end(source, start + 2)

\* the `while nesting > 0` loop of skip_block_comment
RECURSIVE block_comment_from(_, _, _)
block_comment_from(source, p, nesting) ==
    IF nesting = 0 THEN [ok |-> TRUE, position |-> p]
    ELSE IF p > Len(source)
    THEN [ok |-> FALSE, position |-> p]
    ELSE IF source[p] = "/" /\ Lexer_peek(source, p + 1) = Some("*")
    THEN block_comment_from(source, p + 2, nesting + 1)
    ELSE IF source[p] = "*" /\ Lexer_peek(source, p + 1) = Some("/")
    THEN block_comment_from(source, p + 2, nesting - 1)
    ELSE block_comment_from(source, p + 1, nesting)

skip_block_comment(source, start) == block_comment_from(source, start + 2, 1)

\* the loop of natural_language: the position of the closing `"#`, or the
\* end of the text
RECURSIVE natural_language_from(_, _)
natural_language_from(source, p) ==
    IF p > Len(source) THEN p
    ELSE IF source[p] = "\"" /\ Lexer_peek(source, p + 1) = Some("#") THEN p
    ELSE natural_language_from(source, p + 1)

natural_language(source, start) ==
    LET close == natural_language_from(source, start + 2)
        end == IF close <= Len(source) THEN close + 2 ELSE close
    IN  Lexed(Token("NaturalLanguage", SubSeq(source, start, end - 1)), end)

semantic_token(source, start) ==
    LET end == identifier_end(source, start + 1)
    IN  Lexed(Token("Semantic", SubSeq(source, start, end - 1)), end)

\* the loop of semantic_type: the position of the closing `~`, or the end
\* of the text
RECURSIVE semantic_type_from(_, _)
semantic_type_from(source, p) ==
    IF p > Len(source) THEN p
    ELSE IF source[p] = "~" THEN p
    ELSE semantic_type_from(source, p + 1)

semantic_type(source, start) ==
    LET close == semantic_type_from(source, start + 1)
        end == IF close <= Len(source) THEN close + 1 ELSE close
    IN  Lexed(Token("SemanticType", SubSeq(source, start, end - 1)), end)

\* the `match c` of next_token for a character that begins a token
token_at(source, p) ==
    LET c == source[p]
    IN  CASE c \in Letters \cup {"_"} -> identifier_or_keyword(source, p)
          [] c \in DigitChars -> number(source, p)
          [] c = "\"" -> string(source, p)
          [] c = "#" /\ Lexer_peek(source, p + 1) = Some("\"") ->
                natural_language(source, p)
          [] c = "@" -> semantic_token(source, p)
          [] c = "~" -> semantic_type(source, p)
          [] c \in OperatorChars -> operator(source, p)
          [] c \in DelimiterChars -> delimiter(source, p)
          [] OTHER -> LexerError("Unexpected character", <<c>>, p)

\* next_token: whitespace and comments are skipped and next_token is called
\* again, which fails at the end of the text
RECURSIVE next_token(_, _)
next_token(source, p) ==
    LET after_comment(skipped) ==
            IF ~skipped.ok
            THEN LexerError("Unterminated block comment", <<>>,
                            skipped.position)
            ELSE next_token(source, skipped.position)
    IN  IF p > Len(source)
        THEN LexerError("Unexpected end of input", <<>>, p)
        ELSE IF source[p] \in Whitespace
        THEN next_token(source, skip_whitespace(source, p))
        ELSE IF source[p] = "/" /\ Lexer_peek(source, p + 1) = Some("/")
        THEN next_token(source, skip_line_comment(source, p))
        ELSE IF source[p] = "/" /\ Lexer_peek(source, p + 1) = Some("*")
        THEN after_comment(skip_block_comment(source, p))
        ELSE token_at(source, p)

\* the loop of tokenize from position p on
RECURSIVE tokenize_from(_, _, _)
tokenize_from(source, p, tokens) ==
    LET q == skip_whitespace(source, p)
        push(t) ==
            IF ~t.ok THEN Err(t.message, t.token.value, t.position, 0)
            ELSE tokenize_from(source, t.position, Append(tokens, t.token))
    IN  IF q > Len(source) THEN Ok(Append(tokens, Token("Eof", <<>>)))
        ELSE push(next_token(source, q))

tokenize(source) == tokenize_from(source, 1, <<>>)

(***************************************************************************)
(* parser/mod.rs: the parser, for programs made of variable declarations   *)
(* and expression statements whose expressions are literals, identifiers   *)
(* and groupings.  `position` is the index of the token peek() returns,    *)
(* counted from 1.  Attribute values are texts.                            *)
(***************************************************************************)
Parsed(node, position) == [ok |-> TRUE, node |-> node, position |-> position]
ParserError(message, position) ==
    [ok |-> FALSE, node |-> message, position |-> position]

is_at_end(tokens, position) ==
    position > Len(tokens) \/ tokens[position].kind = "Eof"
check_token(tokens, position, kind) ==
    ~is_at_end(tokens, position) /\ tokens[position].kind = kind
check_keyword(tokens, position, value) ==
    check_token(tokens, position, "Keyword") /\ tokens[position].value = value
check_delimiter(tokens, position, value) ==
    check_token(tokens, position, "Delimiter") /\ tokens[position].value = value
check_operator(tokens, position, value) ==
    check_token(tokens, position, "Operator") /\ tokens[position].value = value

\* the statement keywords and the expression forms that are not modelled
OtherStatements ==
    {<<"i", "f">>, <<"w", "h", "e", "n">>,
     <<"f", "o", "r">>, <<"r", "e", "t", "u", "r", "n">>,
     <<"w", "i", "t", "h">>, <<"w", "i", "t", "h", "i", "n">>,
     <<"i", "n", "t", "e", "n", "t">>, <<"p", "a", "r", "a", "l", "l", "e", "l">>,
     <<"a", "p", "p", "l", "y">>}
OtherOperators == {<<"-">>, <<"!">>}
Continues(tokens, position) ==
    \/ check_token(tokens, position, "Operator")
    \/ check_delimiter(tokens, position, <<"(">>)
    \/ check_delimiter(tokens, position, <<".">>)
    \/ check_keyword(tokens, position, <<"a", "n", "d">>)
    \/ check_keyword(tokens, position, <<"o", "r">>)

RECURSIVE parse_expression(_, _)

TextLiteral(type, value) ==
    Node("Literal", [type |-> type, value |-> value], <<>>)

parse_primary(tokens, position) ==
    IF \/ check_keyword(tokens, position, <<"t", "r", "u", "e">>)
       \/ check_keyword(tokens, position, <<"f", "a", "l", "s", "e">>)
    THEN Parsed(TextLiteral(<<"B", "o", "o", "l">>, tokens[position].value), position + 1)
    ELSE IF check_keyword(tokens, position, <<"n", "u", "l", "l">>)
    THEN Parsed(Node("Literal", [type |-> <<"N", "u", "l", "l">>], <<>>), position + 1)
    ELSE IF check_token(tokens, position, "IntLiteral")
    THEN Parsed(TextLiteral(<<"I", "n", "t">>, tokens[position].value), position + 1)
    ELSE IF check_token(tokens, position, "FloatLiteral")
    THEN Parsed(TextLiteral(<<"F", "l", "o", "a", "t">>, tokens[position].value), position + 1)
    ELSE IF check_token(tokens, position, "StringLiteral")
    THEN Parsed(TextLiteral(<<"S", "t", "r", "i", "n", "g">>, tokens[position].value), position + 1)
    ELSE IF check_token(tokens, position, "Identifier")
    THEN Parsed(Node("Identifier", [name |-> tokens[position].value], <<>>),
                position + 1)
    ELSE IF check_delimiter(tokens, position, <<"(">>)
    THEN LET expr == parse_expression(tokens, position + 1)
         IN  IF ~expr.ok THEN expr
             ELSE IF ~check_delimiter(tokens, expr.position, <<")">>)
             THEN ParserError("Expected ')' after expression", expr.position)
             ELSE Parsed(Node("Grouping", EmptyMap, <<expr.node>>),
                         expr.position + 1)
    ELSE ParserError("Unexpected token", position)

\* parse_assignment down to parse_primary, for an expression that no
\* operator, call or member access continues
parse_expression(tokens, position) ==
    IF \/ \E op \in OtherOperators : check_operator(tokens, position, op)
       \/ check_keyword(tokens, position, <<"n", "o", "t">>)
    THEN ParserError("not modelled", position)
    ELSE LET continued(expr) ==
                 IF expr.ok /\ Continues(tokens, expr.position)
                 THEN ParserError("not modelled", expr.position)
                 ELSE expr
         IN  continued(parse_primary(tokens, position))

\* after the keyword `var`
parse_variable_declaration(tokens, position) ==
    IF ~check_token(tokens, position, "Identifier")
    THEN ParserError("Expected variable name", position)
    ELSE IF check_delimiter(tokens, position + 1, <<":">>)
    THEN ParserError("not modelled", position + 1)
    ELSE IF ~check_operator(tokens, position + 1, <<"=">>)
    THEN ParserError("Expected '=' after variable name", position + 1)
    ELSE LET declaration(initializer) ==
                 IF ~initializer.ok THEN initializer
                 ELSE IF ~check_delimiter(tokens, initializer.position, <<";">>)
                 THEN ParserError("Expected ';' after variable declaration",
                                  initializer.position)
                 ELSE Parsed(Node("Variable",
                                  [name |-> tokens[position].value],
                                  <<initializer.node>>),
                             initializer.position + 1)
         IN  declaration(parse_expression(tokens, position + 2))

parse_statement(tokens, position) ==
    IF check_keyword(tokens, position, <<"v", "a", "r">>)
    THEN parse_variable_declaration(tokens, position + 1)
    ELSE IF \/ \E k \in OtherStatements : check_keyword(tokens, position, k)
            \/ check_token(tokens, position, "Semantic")
            \/ check_delimiter(tokens, position, <<"{">>)
    THEN ParserError("not modelled", position)
    ELSE LET expression_statement(expression) ==
                 IF ~expression.ok THEN expression
                 ELSE IF ~check_delimiter(tokens, expression.position, <<";">>)
                 THEN ParserError("Expected ';' after expression",
                                  expression.position)
                 ELSE Parsed(Node("Statement", EmptyMap, <<expression.node>>),
                             expression.position + 1)
         IN  expression_statement(parse_expression(tokens, position))

\* the loop of parse_program with the children parsed so far
RECURSIVE parse_program_from(_, _, _)
parse_program_from(tokens, position, children) ==
    IF is_at_end(tokens, position)
    THEN Parsed(Node("Program", EmptyMap, children), position)
    ELSE IF \/ check_keyword(tokens, position, <<"c", "o", "n", "t", "e", "x", "t">>)
            \/ check_keyword(tokens, position, <<"f", "n">>)
    THEN ParserError("not modelled", position)
    ELSE LET push(statement) ==
                 IF ~statement.ok THEN statement
                 ELSE parse_program_from(tokens, statement.position,
                                         Append(children, statement.node))
         IN  push(parse_statement(tokens, position))

parse_program(tokens) == parse_program_from(tokens, 1, <<>>)

\* Parser::parse: the Result of the Ast
Parser_parse(tokens) ==
    LET ast_of(program) ==
            IF ~program.ok
            THEN Err("Parser error", program.node, program.position, 0)
            ELSE Ok(Ast_new(program.node))
    IN  ast_of(parse_program(tokens))

(***************************************************************************)
(* runtime/modify.rs: parse_source and generate_source                      *)
(***************************************************************************)
parse_source(source) ==
    LET parse(tokens) ==
            IF ~tokens.ok THEN Err("Lexer error", tokens.error.kind, 0, 0)
            ELSE Parser_parse(tokens.value)
    IN  parse(tokenize(source))

Generated(text) == [ok |-> TRUE, text |-> text, error |-> NoError]
GenerateError(kind, name) ==
    [ok |-> FALSE, text |-> <<>>,
     error |-> [kind |-> kind, name |-> name, expected |-> 0, actual |-> 0]]

\* `"    ".repeat(indent)`
RECURSIVE indent_str(_)
indent_str(indent) ==
    IF indent = 0 THEN <<>>
    ELSE <<" ", " ", " ", " ">> \o indent_str(indent - 1)

RECURSIVE generate_source_recursive(_, _, _)

\* `for child in &node.children { generate(child)?; source.push_str("\n"); }`
\* from child i on
RECURSIVE generate_children(_, _, _, _)
generate_children(node, source, indent, i) ==
    IF i > Len(node.children) THEN Generated(source)
    ELSE LET child == generate_source_recursive(node.children[i], source, indent)
         IN  IF ~child.ok THEN child
             ELSE generate_children(node, child.text \o <<"\n">>, indent, i + 1)

\* the text in `source` with the text of the node pushed after it
generate_source_recursive(node, source, indent) ==
    CASE node.kind = "Program" -> generate_children(node, source, indent, 1)
      [] node.kind = "Variable" ->
           LET name == get_attribute(node, "name")
               typ == get_attribute(node, "type")
               head == source \o indent_str(indent) \o <<"v", "a", "r", " ">> \o
                       (IF name.some THEN name.v ELSE <<>>) \o
                       (IF typ.some THEN <<":", " ">> \o typ.v ELSE <<>>)
               init == IF node.children = <<>> THEN Generated(head)
                       ELSE generate_source_recursive(node.children[1],
                                head \o <<" ", "=", " ">>, 0)
           IN  IF ~name.some THEN GenerateError("missing_attribute", "name")
               ELSE IF ~init.ok THEN init
               ELSE Generated(init.text \o <<";">>)
      [] node.kind = "Statement" ->
           IF node.children = <<>> THEN Generated(source)
           ELSE LET child == generate_source_recursive(node.children[1],
                                 source, indent)
                IN  IF ~child.ok THEN child
                    ELSE IF node.children[1].kind \in
                              {"Block", "If", "For", "When"}
                    THEN child
                    ELSE Generated(child.text \o <<";">>)
      [] node.kind = "Literal" ->
           LET typ == get_attribute(node, "type")
               value == get_attribute(node, "value")
           IN  IF ~typ.some THEN GenerateError("missing_attribute", "type")
               ELSE IF ~value.some
               THEN GenerateError("missing_attribute", "value")
               ELSE IF typ.v \in {<<"I", "n", "t">>, <<"F", "l", "o", "a", "t">>, <<"B", "o", "o", "l">>}
               THEN Generated(source \o value.v)
               ELSE IF typ.v = <<"S", "t", "r", "i", "n", "g">>
               THEN Generated(source \o <<"\"">> \o value.v \o <<"\"">>)
               ELSE IF typ.v = <<"N", "u", "l", "l">>
               THEN Generated(source \o <<"n", "u", "l", "l">>)
               ELSE GenerateError("Unknown literal type", typ.v)
      [] node.kind = "Identifier" ->
           LET name == get_attribute(node, "name")
           IN  IF ~name.some THEN GenerateError("missing_attribute", "name")
               ELSE Generated(source \o name.v)
      [] node.kind = "Grouping" ->
           IF node.children = <<>> THEN Generated(source \o <<"(", ")">>)
           ELSE LET child == generate_source_recursive(node.children[1],
                                 source \o <<"(">>, 0)
                IN  IF ~child.ok THEN child
                    ELSE Generated(child.text \o <<")">>)
      [] OTHER -> GenerateError("not modelled", node.kind)

generate_source(ast) == generate_source_recursive(ast.root, <<>>, 0)

(***************************************************************************)
(* The source texts of the model, and the steps that parse a cached text   *)
(* and print a cached tree (Modify::parse_source with cache_ast,           *)
(* Modify::generate_source with cache_source).                             *)
(***************************************************************************)
\* one statement each; the last two do not parse
StatementTexts ==
    {<<"v", "a", "r", " ", "y", " ", "=", " ", "1", ";">>,
     <<"v", "a", "r", " ", "y", " ", "=", " ", "2", ";">>,
     <<"v", "a", "r", " ", "s", " ", "=", " ", "\"", "h", "i", "\"", ";">>,
     <<"v", "a", "r", " ", "y", " ", "=", " ", "n", "u", "l", "l", ";">>,
     <<"v", "a", "r", " ", "y", " ", "=", " ", "t", "r", "u", "e", ";">>,
     <<"y", ";">>,
     <<"1", ";">>,
     <<"\"", "h", "i", "\"", ";">>,
     <<"(", "y", ")", ";">>,
     <<"v", "a", "r", " ", "=", " ", "1", ";">>,
     <<"v", "a", "r", " ", "y", " ", "1", ";">>}

\* the statements of a program, each followed by a line break
RECURSIVE ProgramText(_)
ProgramText(statements) ==
    IF statements = <<>> THEN <<>>
    ELSE Head(statements) \o <<"\n">> \o ProgramText(Tail(statements))

ProgramTexts ==
    {ProgramText(statements) :
        statements \in SeqsUpTo(StatementTexts, MaxStatements)}

\* the file names of the model, as their parts
Targets == {<<"main", ".llm">>, <<"notes", ".txt">>}
MainTarget == <<"main", ".llm">>

\* parse_source on the cached text of the target, then cache_ast
ParseSource(target) ==
    /\ target \in DOMAIN source_cache
    /\ LET ast == parse_source(source_cache[target])
       IN  /\ ast_cache' = IF ast.ok THEN Put(ast_cache, target, ast.value)
                           ELSE ast_cache
           /\ result' = Outcome("parse_source", target, ast)
    /\ UNCHANGED <<engine_vars, parallel_vars, limit_vars, modified_ast, source_cache,
                   files>>

\* generate_source on the cached tree of the target, then cache_source
GenerateSource(target) ==
    /\ target \in DOMAIN ast_cache
    /\ LET source == generate_source(ast_cache[target])
       IN  /\ source_cache' = IF source.ok
                              THEN Put(source_cache, target, source.text)
                              ELSE source_cache
           /\ result' = Outcome("generate_source", target, source)
    /\ UNCHANGED <<engine_vars, parallel_vars, limit_vars, modified_ast, ast_cache,
                   files>>

InitSource ==
    /\ contexts = Context_new.contexts
    /\ current_context = Context_new.current_context
    /\ context_stack = Context_new.context_stack
    /\ scope_stack = Context_new.scope_stack
    /\ instructions = 0
    /\ result = NoOutcome
    /\ Parallel_new
    /\ Limits_new
    /\ modified_ast = None
    /\ ast_cache = EmptyMap
    /\ source_cache \in {Put(EmptyMap, MainTarget, p) : p \in ProgramTexts}
    /\ files = EmptyMap

NextSource ==
    \/ ParseSource(MainTarget)
    \/ GenerateSource(MainTarget)

SpecSource == InitSource /\ [][NextSource]_vars

(***************************************************************************)
(* Lexer::tokenize on the cached text of a target, for every text of up to *)
(* MaxTextLen characters written with a letter, a line break and the       *)
(* characters that begin comments, strings, natural-language literals and  *)
(* semantic types, and one character the lexer does not know               *)
(***************************************************************************)
LexerChars == {"x", "\n", "/", "*", "\"", "#", "~", "$"}

RECURSIVE Texts(_, _)
Texts(chars, n) ==
    IF n = 0 THEN {<<>>}
    ELSE LET shorter == Texts(chars, n - 1)
         IN  shorter \cup
             {Append(t, c) : t \in {k \in shorter : Len(k) = n - 1},
                            c \in chars}

InitLexer ==
    /\ contexts = Context_new.contexts
    /\ current_context = Context_new.current_context
    /\ context_stack = Context_new.context_stack
    /\ scope_stack = Context_new.scope_stack
    /\ instructions = 0
    /\ result = NoOutcome
    /\ Parallel_new
    /\ Limits_new
    /\ modified_ast = None
    /\ ast_cache = EmptyMap
    /\ source_cache \in
           {Put(EmptyMap, MainTarget, text) :
               text \in Texts(LexerChars, MaxTextLen)}
    /\ files = EmptyMap

Tokenize(target) ==
    /\ target \in DOMAIN source_cache
    /\ result' = Outcome("tokenize", target, tokenize(source_cache[target]))
    /\ UNCHANGED <<engine_vars, parallel_vars, limit_vars, modify_vars>>

NextLexer == Tokenize(MainTarget)

SpecLexer == InitLexer /\ [][NextLexer]_vars

(***************************************************************************)
(* runtime/engine.rs: execute_modification, the `@modify` statement.  The  *)
(* statement is a Semantic node with the attributes target, operation,     *)
(* path, code, position, name and value; `files` is the file system.  A    *)
(* target is kept as the parts of its file name, extension last.           *)
(***************************************************************************)
\* `target.ends_with(".llm")`
ends_with(target, suffix) == target # <<>> /\ target[Len(target)] = suffix

\* `str::split(sep)` from character i on, with the piece read so far
RECURSIVE split_from(_, _, _, _)
split_from(text, sep, i, piece) ==
    IF i > Len(text) THEN <<piece>>
    ELSE IF text[i] = sep THEN <<piece>> \o split_from(text, sep, i + 1, <<>>)
    ELSE split_from(text, sep, i + 1, Append(piece, text[i]))

split(text, sep) == split_from(text, sep, 1, <<>>)

digit_value(c) ==
    CHOOSE d \in 0..9 :
        <<"0", "1", "2", "3", "4", "5", "6", "7", "8", "9">>[d + 1] = c

\* `str::parse::<usize>()`: decimal digits after an optional plus sign
RECURSIVE digits_value(_)
digits_value(digits) ==
    IF digits = <<>> THEN 0
    ELSE 10 * digits_value(SubSeq(digits, 1, Len(digits) - 1)) +
         digit_value(digits[Len(digits)])

parse_usize(text) ==
    LET digits == IF text # <<>> /\ text[1] = "+" THEN Tail(text) ELSE text
    IN  IF digits # <<>> /\ \A i \in 1..Len(digits) : digits[i] \in DigitChars
        THEN Some(digits_value(digits))
        ELSE None

\* `path_str.split('.').map(|s| s.parse::<usize>().unwrap_or(0)).collect()`
parse_path(path_str) ==
    LET pieces == split(path_str, ".")
    IN  [i \in 1..Len(pieces) |->
            IF parse_usize(pieces[i]).some THEN parse_usize(pieces[i]).v ELSE 0]

\* Modify: the two caches
Modify(asts, sources) == [ast_cache |-> asts, source_cache |-> sources]
cache_ast(modify, name, ast) ==
    [modify EXCEPT !.ast_cache = Put(@, name, ast)]
cache_source_once(modify, name, source) ==
    IF name \in DOMAIN modify.source_cache THEN modify
    ELSE [modify EXCEPT !.source_cache = Put(@, name, source)]

cache_source(modify, name, source) ==
    [modify EXCEPT !.source_cache = Put(@, name, source)]
get_source(modify, name) == Get(modify.source_cache, name)

\* what execute_modification leaves behind: the caches, the files and its Result
Modification(modify, fs, res) == [modify |-> modify, files |-> fs, res |-> res]

\* the `match operation` of execute_modification: the Result of the one
\* modification the statement asks for.  new_ast is the Result of
\* `parse_source(code)`, which only `replace` and `insert` ask for.
build_modification(operation, node) ==
    LET path_str == get_attribute(node, "path")
        code == get_attribute(node, "code")
        position == get_attribute(node, "position")
        name == get_attribute(node, "name")
        value == get_attribute(node, "value")
        build(path, new_ast) ==
            CASE operation = "replace" ->
                    IF ~code.some THEN Err("missing_attribute", "code", 0, 0)
                    ELSE IF ~new_ast.ok THEN new_ast
                    ELSE Ok(ReplaceNode(path, new_ast.value.root))
              [] operation = "insert" ->
                    IF ~position.some
                    THEN Err("missing_attribute", "position", 0, 0)
                    ELSE IF ~parse_usize(position.v).some
                    THEN Err("Invalid position", "", 0, 0)
                    ELSE IF ~code.some
                    THEN Err("missing_attribute", "code", 0, 0)
                    ELSE IF ~new_ast.ok THEN new_ast
                    ELSE Ok(InsertNode(path, new_ast.value.root,
                                       parse_usize(position.v).v))
              [] operation = "delete" -> Ok(DeleteNode(path))
              [] operation = "modify" ->
                    IF ~name.some THEN Err("missing_attribute", "name", 0, 0)
                    ELSE IF ~value.some
                    THEN Err("missing_attribute", "value", 0, 0)
                    ELSE Ok(ModifyAttribute(path, name.v, value.v))
    IN  IF operation \notin {"replace", "insert", "delete", "modify"}
        THEN Err("Unknown operation", operation, 0, 0)
        ELSE IF ~path_str.some THEN Err("missing_attribute", "path", 0, 0)
        ELSE build(parse_path(path_str.v), parse_source(code.v))

\* execute_modification, step after step: the source of the target is the
\* cached one or the text of its file, which is then cached; the source is
\* parsed and the tree cached; the modification is built and applied; the
\* new tree is cached, its source generated and cached, and written to the
\* file of a target whose name ends in `.llm`.  write_ok tells whether
\* `std::fs::write` succeeds.
execute_modification(modify, fs, target, operation, node, write_ok) ==
    LET cached == get_source(modify, target)
        write(recached, new_source) ==
            IF ~new_source.ok
            THEN Modification(recached, fs,
                              [ok |-> FALSE, value |-> VoidV,
                               error |-> new_source.error])
            ELSE IF ~ends_with(target, ".llm")
            THEN Modification(cache_source(recached, target, new_source.text),
                              fs, Ok(VoidV))
            ELSE IF ~write_ok
            THEN Modification(cache_source(recached, target, new_source.text),
                              fs, Err("Failed to write source code", "", 0, 0))
            ELSE Modification(cache_source(recached, target, new_source.text),
                              Put(fs, target, new_source.text), Ok(VoidV))
        generate(parsed, edited) ==
            IF ~edited.res.ok THEN Modification(parsed, fs, edited.res)
            ELSE write(cache_ast(parsed, target, edited.ast),
                       generate_source(edited.ast))
        apply(parsed, ast, modification) ==
            IF ~modification.ok THEN Modification(parsed, fs, modification)
            ELSE generate(parsed, modify_ast(ast, <<modification.value>>))
        build(loaded, ast) ==
            IF ~ast.ok THEN Modification(loaded, fs, ast)
            ELSE apply(cache_ast(loaded, target, ast.value), ast.value,
                       build_modification(operation, node))
    IN  IF ~cached.some /\ target \notin DOMAIN fs
        THEN Modification(modify, fs, Err("Failed to load source code", "", 0, 0))
        ELSE build(IF cached.some THEN modify
                   ELSE cache_source(modify, target, fs[target]),
                   parse_source(IF cached.some THEN cached.v ELSE fs[target]))

\* EngineOptions::default().self_modifying
options_self_modifying == TRUE

\* the `@modify` statements of the model: an operation and the Semantic
\* node that carries the attributes the operation reads
PathTexts == {<<"0">>, <<"1">>, <<"0", ".", "0">>}
PositionTexts == {<<"0">>, <<"9">>}
NewCode == <<"y", ";">>
ModifyStatements ==
    {<<"replace", Node("Semantic", [path |-> path, code |-> NewCode], <<>>)>> :
        path \in PathTexts} \cup
    {<<"insert", Node("Semantic", [path |-> path, code |-> NewCode,
                                   position |-> position], <<>>)>> :
        path \in PathTexts, position \in PositionTexts} \cup
    {<<"delete", Node("Semantic", [path |-> path], <<>>)>> :
        path \in PathTexts} \cup
    {<<"modify", Node("Semantic", [path |-> path, name |-> "name",
                                   value |-> <<"z">>], <<>>)>> :
        path \in PathTexts} \cup
    {<<"rename", Node("Semantic", [path |-> <<"0">>], <<>>)>>}

\* the last `@modify` statement: its target, operation and node, and the Result
ModifyStatementOutcome(target, operation, node, res) ==
    [op |-> "@modify", name |-> target, operation |-> operation,
     node |-> node, res |-> res]

\* execute_node on a `@modify` statement: the statement is counted, then
\* execute_semantic checks the option and calls execute_modification
ExecuteModification(target, operation, node, write_ok) ==
    /\ instructions < MaxModifications
    /\ instructions' = instructions + 1
    /\ LET m == IF options_self_modifying
                THEN execute_modification(Modify(ast_cache, source_cache),
                         files, target, operation, node, write_ok)
                ELSE Modification(Modify(ast_cache, source_cache), files,
                         Err("feature_disabled", "Self-modifying", 0, 0))
       IN  /\ ast_cache' = m.modify.ast_cache
           /\ source_cache' = m.modify.source_cache
           /\ files' = m.files
           /\ result' = ModifyStatementOutcome(target, operation, node, m.res)
    /\ UNCHANGED <<contexts, current_context, context_stack, scope_stack,
                   parallel_vars, limit_vars, modified_ast>>

\* the texts the files hold before the first statement
FileTexts ==
    {ProgramText(<<<<"v", "a", "r", " ", "y", " ", "=", " ", "1", ";">>, <<"y", ";">>>>),
     ProgramText(<<<<"v", "a", "r", " ", "y", " ", "=", " ", "n", "u", "l", "l", ";">>>>)}

InitSelfModify ==
    /\ contexts = Engine_new.context.contexts
    /\ current_context = Engine_new.context.current_context
    /\ context_stack = Engine_new.context.context_stack
    /\ scope_stack = Engine_new.context.scope_stack
    /\ instructions = Engine_new.instructions
    /\ result = NoOutcome
    /\ Parallel_new
    /\ Limits_new
    /\ modified_ast = None
    /\ ast_cache = EmptyMap
    /\ source_cache = EmptyMap
    /\ files \in {[t \in present |-> text] :
                     present \in {{MainTarget}, Targets}, text \in FileTexts}

NextSelfModify ==
    \E target \in Targets, statement \in ModifyStatements,
       write_ok \in BOOLEAN :
          ExecuteModification(target, statement[1], statement[2], write_ok)

SpecSelfModify == InitSelfModify /\ [][NextSelfModify]_vars

(***************************************************************************)
(* Properties of the context manager                                       *)
(***************************************************************************)
BoundInCurrent(c, n) ==
    /\ c.current_context \in DOMAIN c.contexts
    /\ n \in DOMAIN c.contexts[c.current_context].variables

BoundInGlobal(c, n) ==
    /\ "global" \in DOMAIN c.contexts
    /\ n \in DOMAIN c.contexts["global"].variables

FramesHolding(c, n) ==
    {i \in 1..Len(c.scope_stack) : n \in DOMAIN c.scope_stack[i].variables}

Unbound(c, n) ==
    /\ FramesHolding(c, n) = {}
    /\ \A k \in DOMAIN c.contexts : n \notin DOMAIN c.contexts[k].variables

\* C1: from every state with no frame pushed in which the current context
\* binds x to v, push_frame followed by register_variable(x, w) makes
\* get_variable(x) return w, and the matching pop_frame makes it return v
\* again and leaves the manager exactly as it was: the inner declaration
\* shadows the outer binding and never overwrites it.
C1_ShadowingRestores ==
    \A n \in VarNames, w \in IntValues :
        (Len(scope_stack) = 0 /\ BoundInCurrent(Ctx, n)) =>
            LET v == contexts[current_context].variables[n]
                inner == register_variable(push_frame(Ctx), n, w)
                outer == pop_frame(inner)
            IN  /\ get_variable(inner, n) = Some(w)
                /\ inner.contexts = contexts
                /\ get_variable(outer, n) = Some(v)
                /\ outer = Ctx

\* a frame is pushed and x has just been declared in it with a value that
\* differs from the value the current context binds x to
C1_Witness ==
    /\ Len(scope_stack) = 1
    /\ BoundInCurrent(Ctx, "x")
    /\ "x" \in DOMAIN scope_stack[1].variables
    /\ scope_stack[1].variables["x"] # contexts[current_context].variables["x"]
    /\ get_variable(Ctx, "x") = Some(scope_stack[1].variables["x"])

\* C2: get_variable(name) is the binding of the topmost frame that holds
\* name; with no such frame, the binding in the current context; with none
\* there, the binding in the "global" context; and nothing otherwise.
C2_LookupOrder ==
    \A n \in VarNames :
        LET holders == FramesHolding(Ctx, n)
            top == CHOOSE i \in holders : \A j \in holders : j <= i
        IN  get_variable(Ctx, n) =
                IF holders # {} THEN Some(scope_stack[top].variables[n])
                ELSE IF BoundInCurrent(Ctx, n)
                THEN Some(contexts[current_context].variables[n])
                ELSE IF BoundInGlobal(Ctx, n)
                THEN Some(contexts["global"].variables[n])
                ELSE None

\* two frames, the current context and "global" all bind x, the two frames
\* to different values
C2_Witness ==
    /\ Len(scope_stack) = 2
    /\ FramesHolding(Ctx, "x") = {1, 2}
    /\ scope_stack[1].variables["x"] # scope_stack[2].variables["x"]
    /\ current_context # "global"
    /\ BoundInCurrent(Ctx, "x")
    /\ BoundInGlobal(Ctx, "x")

\* C3: assigning to a name that no frame and no context binds returns an
\* error and changes nothing: frames, contexts, current context and context
\* stack are as before and the name is still unbound.
C3_AssignUnboundFails ==
    [][\A n \in VarNames :
          (result'.op = "assign_variable" /\ result'.name = n
           /\ Unbound(Ctx, n)) =>
              /\ ~result'.res.ok
              /\ result'.res.error.kind = "undefined_assignment"
              /\ UNCHANGED <<contexts, current_context, context_stack,
                             scope_stack>>
              /\ Unbound(Ctx', n)]_vars

\* an assignment to the unbound name y has just failed while x is bound in a
\* frame and in a context
C3_Witness ==
    /\ result.op = "assign_variable"
    /\ result.name = "y"
    /\ ~result.res.ok
    /\ Unbound(Ctx, "y")
    /\ FramesHolding(Ctx, "x") # {}
    /\ BoundInGlobal(Ctx, "x")

\* C4 as stated: an assignment made while the current context is not
\* "global" never changes a variable of the "global" context.
C4_GlobalReadOnly ==
    [][(result'.op = "assign_variable" /\ current_context # "global") =>
          contexts'["global"].variables = contexts["global"].variables]_vars

\* C4 amended: an assignment made while the current context is not "global"
\* adds no binding to and removes none from "global", and changes the value
\* of a "global" variable only if that is the assigned name and neither a
\* frame nor the current context binds it.
C4_GlobalAssignFallback ==
    [][(result'.op = "assign_variable" /\ current_context # "global") =>
          /\ DOMAIN contexts'["global"].variables =
                 DOMAIN contexts["global"].variables
          /\ \A m \in DOMAIN contexts["global"].variables :
                 contexts'["global"].variables[m] #
                     contexts["global"].variables[m] =>
                        /\ m = result'.name
                        /\ result'.res.ok
                        /\ FramesHolding(Ctx, m) = {}
                        /\ ~BoundInCurrent(Ctx, m)]_vars

\* an assignment has just succeeded in a context other than "global" for a
\* name that only "global" binds
C4_Witness ==
    /\ result.op = "assign_variable"
    /\ result.res.ok
    /\ current_context # "global"
    /\ FramesHolding(Ctx, result.name) = {}
    /\ ~BoundInCurrent(Ctx, result.name)
    /\ BoundInGlobal(Ctx, result.name)

(***************************************************************************)
(* Properties of the engine                                                *)
(***************************************************************************)
\* C5: when a `with context` or `within` statement, nested to any depth the
\* model runs, returns a value, the current context and the context stack
\* are the ones from before the statement.
C5_ContextRestored ==
    [][(result'.op \in {"With", "Within"} /\ result'.res.ok) =>
          /\ current_context' = current_context
          /\ context_stack' = context_stack]_vars

\* a `with context "A"` statement that holds a nested statement has just
\* returned a value, and "global" is current again on an empty stack
C5_Witness ==
    /\ result.op = "With"
    /\ result.name = "A"
    /\ result.res.ok
    /\ result.info >= 2
    /\ "A" \in DOMAIN contexts
    /\ current_context = "global"
    /\ context_stack = <<>>

\* C6: a `with context` statement whose name already has a context leaves
\* that context every variable and every function it held.
C6_WithKeepsExisting ==
    [][(result'.op = "With" /\ result'.name \in DOMAIN contexts) =>
          /\ DOMAIN contexts[result'.name].variables \subseteq
                 DOMAIN contexts'[result'.name].variables
          /\ DOMAIN contexts[result'.name].functions \subseteq
                 DOMAIN contexts'[result'.name].functions]_vars

\* C7: a `within` statement that holds no nested statement and names a
\* context that was never created does not make that name the current
\* context.
C7_WithinOnlyExisting ==
    [][(/\ result'.op = "Within"
        /\ result'.info = 1
        /\ result'.name \notin DOMAIN contexts
        /\ current_context # result'.name) =>
          current_context' # result'.name]_vars

\* C8: after a call the scope stack is as deep as before it, whether the
\* call returned a value or an error, and a call of f(p, q) that returns a
\* value returns its second argument.
C8_CallRestoresDepth ==
    [][result'.op = "Call" =>
          /\ Len(scope_stack') = Len(scope_stack)
          /\ (result'.res.ok /\ result'.name = "f") =>
                 result'.res.value = IntV(2)]_vars

\* C9: a call of f, which the current context holds as a user function, with
\* a number of arguments that differs from the number of its parameters
\* fails with invalid_argument_count carrying the expected and the actual
\* count.
C9_WrongArityRejected ==
    [][(/\ result'.op = "Call"
        /\ result'.name = "f"
        /\ get_function(Ctx, "f").some
        /\ result'.info # parameter_count(get_function(Ctx, "f").v)) =>
          result'.res =
              Err("invalid_argument_count", "f",
                  parameter_count(get_function(Ctx, "f").v),
                  result'.info)]_vars

\* C10: the run of `context c { fn main() { var x = a + b; return x; } }`
\* returns Int(a + b) and counts at least one instruction.
C10_MainValueReturned ==
    (result.op = "execute" /\ result.name \in ProgramContexts) =>
        /\ result.res = Ok(IntV(result.a + result.b))
        /\ instructions > 0

(***************************************************************************)
(* Properties of the parallel executor                                     *)
(***************************************************************************)
Count(p, pairs) == Cardinality({k \in 1..Len(pairs) : pairs[k] = p})

Largest(a, b) == IF a >= b THEN a ELSE b

\* C11: when Parallel::execute has returned, it did not panic, every spawned
\* thread has finished, and the returned vector holds every submitted
\* (name, result) pair exactly as often as it was submitted, whatever the
\* order in which the threads pushed and whether the results are errors.
C11_OnePairPerFunction ==
    (pc = "idle" /\ result.op = "Parallel::execute") =>
        /\ ~result.panicked
        /\ Len(result.pairs) = Len(functions)
        /\ \A p \in FunctionSet :
               Count(p, result.pairs) = Count(p, functions)
        /\ \A i \in 1..Len(threads) : threads[i] = "done"

\* Parallel::execute has returned three pairs, one of them an error, in an
\* order that differs from the order of submission
C11_Witness ==
    /\ pc = "idle"
    /\ result.op = "Parallel::execute"
    /\ Len(result.pairs) = 3
    /\ result.pairs # functions
    /\ \E k \in 1..3 : ~result.pairs[k][2].ok

C13_LockOnlyForPush ==
    /\ lock = 0 \/ threads[lock] = "push"
    /\ \A i \in 1..Len(threads) :
           threads[i] \in {"unspawned", "run", "lock", "done"} => lock # i

\* the caller waits in a join for a thread that still runs its function
\* while another thread holds the lock
C13_Witness ==
    /\ pc = "join"
    /\ threads[joining] = "run"
    /\ lock # 0
    /\ lock # joining


(***************************************************************************)
(* Properties of execute_with_timeout                                      *)
(***************************************************************************)
\* the latest call of execute_with_timeout has returned
TimeoutReturned ==
    /\ pc = "idle"
    /\ result.op = "Parallel::execute_with_timeout"

\* C14: execute_with_timeout returns the function's own result when the
\* function's thread has delivered it before the timeout ends the wait, and
\* otherwise, only after the whole timeout has passed, the error "Function
\* timed out after ..."; the caller neither stops nor waits for the thread:
\* the thread still runs to its end, and what it sends late never reaches
\* the channel nor changes what the caller was given.
C14_TimeoutResult ==
    /\ [](TimeoutReturned =>
            LET i == Len(threads)
            IN  /\ threads[i] = "sent" => result.res = functions[i][2]
                /\ threads[i] # "sent" =>
                     /\ result.res = TimedOut(timeout)
                     /\ elapsed = timeout
                     /\ channel = <<>>)
    /\ \A i \in 1..MaxCalls :
         (Len(threads) >= i /\ threads[i] \in {"run", "send"})
            ~> (Len(threads) >= i /\ threads[i] \in {"sent", "dropped"})

\* a call timed out while its function was still running, and the thread
\* has then finished and sent its result to nobody
C14_Witness ==
    /\ TimeoutReturned
    /\ result.res = TimedOut(timeout)
    /\ timeout > 0
    /\ threads[Len(threads)] = "dropped"
(***************************************************************************)
(* Properties of the parallel statement                                    *)
(***************************************************************************)
\* C15: `parallel { ... } select fastest` returns the value of a path whose
\* measured time is the lowest of all paths, also when paths share a name.
C15_FastestReturned ==
    (/\ result.op = "execute_parallel"
     /\ result.name = "fastest"
     /\ result.paths # <<>>)
    => \E k \in 1..Len(result.paths) :
          /\ \A m \in 1..Len(result.paths) : result.times[k] <= result.times[m]
          /\ result.res = Ok(IntV(result.paths[k][2]))
(***************************************************************************)
(* Properties of the tree modifications                                    *)
(***************************************************************************)
\* every index of the path is a child index of the node it indexes
InRange(ast, path) ==
    \A d \in 1..Len(path) :
        LET node == get_node(ast, SubSeq(path, 1, d - 1))
        IN  node.ok /\ path[d] < Len(node.value.children)

\* the modification names an index, a position or a child that the tree
\* does not have, or asks to delete the root
OutOfRange(ast, m) ==
    CASE m.op = "DeleteNode" ->
             \/ m.path = <<>>
             \/ ~InRange(ast, m.path)
      [] m.op = "InsertNode" ->
             \/ ~InRange(ast, m.path)
             \/ m.position > Len(get_node(ast, m.path).value.children)
      [] OTHER -> ~InRange(ast, m.path)

\* C16: a single replace, insert, delete or modify-attribute whose path has
\* an index out of range (or whose insert position or deleted child index
\* is out of range, or a delete with an empty path) returns an error and
\* leaves the tree as it was.
C16_OutOfRangeRejected ==
    (/\ result.op = "modify_ast"
     /\ Len(result.modifications) = 1
     /\ OutOfRange(result.before, result.modifications[1]))
    => /\ ~result.res.ok
       /\ modified_ast = Some(result.before)

\* an insert at a position past the last child was refused
C16_Witness ==
    /\ result.op = "modify_ast"
    /\ Len(result.modifications) = 1
    /\ result.modifications[1].op = "InsertNode"
    /\ InRange(result.before, result.modifications[1].path)
    /\ OutOfRange(result.before, result.modifications[1])
    /\ ~result.res.ok
    /\ modified_ast = Some(result.before)

\* C17: when step k of a batch given to modify_ast fails, the tree is the
\* one that steps 1..k-1 produce in order: no rollback, no later step.
C17_BatchStopsAtFailure ==
    (result.op = "modify_ast" /\ ~result.res.ok)
    => \E k \in 1..Len(result.modifications) :
          LET earlier == modify_ast(result.before,
                                    SubSeq(result.modifications, 1, k - 1))
          IN  /\ earlier.res.ok
              /\ ~modify_ast(earlier.ast, <<result.modifications[k]>>).res.ok
              /\ modified_ast = Some(earlier.ast)

\* the second step of a batch failed after the first one had changed the tree
C17_Witness ==
    /\ result.op = "modify_ast"
    /\ ~result.res.ok
    /\ Len(result.modifications) = 2
    /\ modify_ast(result.before, <<result.modifications[1]>>).res.ok
    /\ modified_ast # Some(result.before)

\* C19: the same ModifyAttribute applied twice leaves the tree that applying
\* it once leaves, with the same Result.
C19_ModifyAttributeIdempotent ==
    (/\ result.op = "modify_ast"
     /\ Len(result.modifications) = 2
     /\ result.modifications[1] = result.modifications[2]
     /\ result.modifications[1].op = "ModifyAttribute")
    => LET once == modify_ast(result.before, <<result.modifications[1]>>)
       IN  /\ modified_ast = Some(once.ast)
           /\ result.res = once.res

\* an attribute was set twice to a value it did not have before
C19_Witness ==
    /\ result.op = "modify_ast"
    /\ Len(result.modifications) = 2
    /\ result.modifications[1] = result.modifications[2]
    /\ result.modifications[1].op = "ModifyAttribute"
    /\ result.res.ok
    /\ modified_ast # Some(result.before)
(***************************************************************************)
(* Properties of `@modify`                                                 *)
(***************************************************************************)
\* C18: after a successful `@modify` of a target the cached tree of the
\* target is the tree of its previous source with the modification applied,
\* the cached source is the text generated from that tree, and the file of
\* the target has been written, with that text, exactly when the name of
\* the target ends in `.llm`; no other file is touched.
C18_ModifyUpdatesCaches ==
    [][(result'.op = "@modify" /\ result'.res.ok)
       => LET target == result'.name
              source == IF target \in DOMAIN source_cache
                        THEN source_cache[target] ELSE files[target]
              edited == modify_ast(parse_source(source).value,
                            <<build_modification(result'.operation,
                                                 result'.node).value>>)
          IN  /\ edited.res.ok
              /\ ast_cache'[target] = edited.ast
              /\ generate_source(ast_cache'[target]) =
                     Generated(source_cache'[target])
              /\ IF ends_with(target, ".llm")
                 THEN files' = Put(files, target, source_cache'[target])
                 ELSE files' = files]_vars

\* a successful `@modify` has changed the cached tree of an .llm target and
\* written the file
C18_Witness ==
    /\ result.op = "@modify"
    /\ result.res.ok
    /\ ends_with(result.name, ".llm")
    /\ result.operation = "insert"
    /\ files[result.name] = source_cache[result.name]
    /\ files[result.name] \notin FileTexts

(***************************************************************************)
(* Properties of source generation                                         *)
(***************************************************************************)
\* C20: once a program has parsed, generating source from its tree succeeds
\* and parsing the generated text succeeds with a tree equal to the first
\* one in node kinds, child order and attributes.
C20_RoundTrip ==
    [][/\ result'.op = "generate_source" => result'.res.ok
       /\ (result'.op = "parse_source" /\ MainTarget \in DOMAIN ast_cache)
             => /\ result'.res.ok
                /\ ast_cache' = ast_cache]_vars
\* C21: every dispatch of execute_node adds one to the instruction counter;
\* the first dispatch that reads an elapsed time above max_time, or finds
\* the memory usage above max_memory, fails with the limit error before its
\* node is evaluated, and execute returns that error and no value: the
\* engine is left as the statements completed before that dispatch left it.
RunUnlimited(e, statements) ==
    Engine_execute([e EXCEPT !.options = EngineOptions_default],
                   ProgramNode(statements)).e

\* the statements that are complete when dispatch d begins
CompletedBefore(program, d) ==
    SubSeq(program.children, 1, IF d < 2 THEN 0 ELSE (d - 2) \div 2)

TimeBreach(clock, d) ==
    options.max_time.some /\ clock[d] > options.max_time.v

MemoryBreach(program, d) ==
    /\ options.max_memory.some
    /\ RunUnlimited(E, CompletedBefore(program, d)).memory.memory_usage
           > options.max_memory.v

\* the first dispatch from d on that finds a budget exceeded, 0 if none does
RECURSIVE FirstBreach(_, _, _)
FirstBreach(program, clock, d) ==
    IF d > Dispatches(program) THEN 0
    ELSE IF TimeBreach(clock, d) \/ MemoryBreach(program, d) THEN d
    ELSE FirstBreach(program, clock, d + 1)

C21_Step ==
    result'.op = "limited" =>
        LET program == result'.program
            clock == result'.clock
            res == result'.res
            left_as(before) ==
                /\ contexts' = before.context.contexts
                /\ memory' = before.memory
            stopped_at(d) ==
                IF d = 0
                THEN /\ instructions' = Dispatches(program)
                     /\ res.ok
                ELSE /\ instructions' = d
                     /\ ~res.ok
                     /\ res.error.kind =
                            IF TimeBreach(clock, d) THEN "time_limit_exceeded"
                            ELSE "memory_limit_exceeded"
                     /\ left_as(RunUnlimited(E, CompletedBefore(program, d)))
        IN  stopped_at(FirstBreach(program, clock, 1))

C21_LimitsBeforeEvaluating == [][C21_Step]_vars

\* a run stopped by a budget in the middle of a program
C21_Witness ==
    /\ result.op = "limited"
    /\ ~result.res.ok
    /\ result.res.error.kind \in {"time_limit_exceeded", "memory_limit_exceeded"}
    /\ instructions > 1
    /\ instructions < Dispatches(result.program)

\* C29: after any sequence of `@remember` statements the memory usage that
\* execute_node compares with max_memory is the sum of the sizes of the
\* values the memory holds; a replaced value is no longer counted.
RECURSIVE SizeOfValues(_, _)
SizeOfValues(values, keys) ==
    IF keys = {} THEN 0
    ELSE LET key == CHOOSE k \in keys : TRUE
         IN  calculate_value_size(values[key]) +
             SizeOfValues(values, keys \ {key})

C29_UsageIsStoredSum ==
    memory.memory_usage = SizeOfValues(memory.values, DOMAIN memory.values)

\* C22: division and modulo of Int and Float operands return
\* division_by_zero when the right operand is zero, and otherwise neither
\* panic nor return an infinity or NaN.
Numeric(v) == v.t \in {"Int", "Float"}
RightZero(b) == IF b.t = "Int" THEN b.i = 0 ELSE is_zero(b)

C22_NoInfNaNPanic ==
    (result.op \in {"/", "%"} /\ Numeric(result.a) /\ Numeric(result.b)) =>
        /\ RightZero(result.b) =>
               ~result.res.ok /\ result.res.error.kind = "division_by_zero"
        /\ ~RightZero(result.b) =>
               /\ result.res.ok
               /\ result.res.value.t = "Float" =>
                      result.res.value.class \notin {"inf", "nan"}

\* C23: a `when` statement executes the block of the first case, in source
\* order, whose expression equals the subject, and no other block; the
\* `otherwise` block is executed only when no case expression equals the
\* subject.
BlocksRun == {i \in 1..Len(BlockNames) : BlockNames[i] \in DOMAIN memory.values}

Matching(subject, labels) ==
    {i \in 1..Len(labels) : labels[i] = Some(subject)}
Catching(labels) == {i \in 1..Len(labels) : labels[i] = None}
First(indices) ==
    IF indices = {} THEN {}
    ELSE {CHOOSE i \in indices : \A j \in indices : i <= j}

RECURSIVE WordsEnd(_, _)
WordsEnd(source, p) ==
    IF p <= Len(source) /\ source[p] \in {"x", "\n"}
    THEN WordsEnd(source, p + 1)
    ELSE p

RECURSIVE OnlyComments(_, _)
OnlyComments(source, p) ==
    IF p > Len(source) THEN TRUE
    ELSE IF source[p] \in Whitespace THEN OnlyComments(source, p + 1)
    ELSE IF source[p] = "/" /\ Lexer_peek(source, p + 1) = Some("/")
    THEN OnlyComments(source, skip_line_comment(source, p))
    ELSE IF source[p] = "/" /\ Lexer_peek(source, p + 1) = Some("*")
    THEN /\ skip_block_comment(source, p).ok
         /\ OnlyComments(source, skip_block_comment(source, p).position)
    ELSE FALSE

Words(source) == SubSeq(source, 1, WordsEnd(source, 1) - 1)

EofLast(tokens) ==
    /\ tokens # <<>>
    /\ \A i \in 1..Len(tokens) : (tokens[i].kind = "Eof") = (i = Len(tokens))

C24_EofLastCommentsSkipped ==
    result.op = "tokenize" =>
        LET source == source_cache[result.name]
        IN  /\ result.res.ok => EofLast(result.res.value)
            /\ OnlyComments(source, WordsEnd(source, 1)) =>
                   /\ result.res.ok
                   /\ result.res.value = tokenize(Words(source)).value

\* C25: a text with an unterminated string, block comment, natural-language
\* literal or semantic type, or with a character the lexer does not know,
\* makes tokenize return a LexerError and no token list.  The texts of the
\* formula are words and line breaks followed by such a place.
RECURSIVE Occurs(_, _, _)
Occurs(source, c, p) ==
    /\ p <= Len(source)
    /\ (source[p] = c \/ Occurs(source, c, p + 1))

LexicalErrorAt(source, p) ==
    /\ p <= Len(source)
    /\ \/ source[p] = "$"
       \/ source[p] = "\"" /\ ~Occurs(source, "\"", p + 1)
       \/ source[p] = "~" /\ ~Occurs(source, "~", p + 1)
       \/ source[p] = "#" /\ Lexer_peek(source, p + 1) # Some("\"")
       \/ /\ source[p] = "#"
          /\ Lexer_peek(source, p + 1) = Some("\"")
          /\ natural_language_from(source, p + 2) > Len(source)
       \/ /\ source[p] = "/"
          /\ Lexer_peek(source, p + 1) = Some("*")
          /\ ~skip_block_comment(source, p).ok

C25_LexicalErrorReturned ==
    result.op = "tokenize" =>
        LET source == source_cache[result.name]
        IN  LexicalErrorAt(source, WordsEnd(source, 1)) => ~result.res.ok

C26_Step ==
    /\ (result'.op \in {"With", "Within"} /\ ~result'.res.ok) =>
          /\ result'.res.error.kind = "undefined_variable"
          /\ Len(context_stack') = Len(context_stack) + result'.info
          /\ SubSeq(context_stack', 1, Len(context_stack) + 1) =
                 Append(context_stack, current_context)
          /\ result'.info = 1 => current_context' = result'.name
          /\ result'.info > 1 =>
                 /\ context_stack'[Len(context_stack) + 2] = result'.name
                 /\ current_context' \in CtxNames
    /\ (current_context' # current_context \/ context_stack' # context_stack)
          => (result'.op \in {"With", "Within"} /\ ~result'.res.ok)

C27_CalleeResolves ==
    [][(/\ result'.op = "Call"
        /\ get_function(Ctx, result'.name).some
        /\ ~result'.res.ok) =>
          ~(/\ result'.res.error.kind = "undefined_variable"
            /\ result'.res.error.name = result'.name)]_vars

\* C28: a function declared in the body of `context c { ... }` is stored in
\* context c and in no other context.
C28_DeclaredInItsContext ==
    (result.op = "execute" /\ result.name \in ProgramContexts
        /\ result.res.ok) =>
        \A c \in DOMAIN contexts :
            ("main" \in DOMAIN contexts[c].functions) = (c = result.name)

\* C30: at every point between `@modify` statements, successful or failed,
\* the cached tree and the cached source of a target describe the same
\* tree: the tree is the one the source parses to, or the source is the
\* text generated from the tree.
DescribeSameTree(ast, source) ==
    \/ parse_source(source) = Ok(ast)
    \/ generate_source(ast) = Generated(source)

C30_CachesDescribeSameTree ==
    \A target \in DOMAIN ast_cache \cap DOMAIN source_cache :
        DescribeSameTree(ast_cache[target], source_cache[target])

====
